---- MODULE Spec2Model ----
(***************************************************************************)
(* Kidizen Science API: the transactional entity-mutation engine           *)
(* (crud.js, data-number.js, batch-delete.js, storage.js) and the          *)
(* credential subsystem (auth.js) over a Datastore with ancestor keys and  *)
(* a Cloud Storage bucket of image blobs.                                  *)
(*                                                                         *)
(* A handler is modelled as an operator from the transaction's snapshot    *)
(* (the store at transaction.run()), the bucket and the request to an      *)
(* outcome: the HTTP status, the buffered writes that were committed, the  *)
(* bucket after the handler's deletes, and how the transaction ended.      *)
(* Reads inside a transaction see the snapshot, never the buffered writes. *)
(***************************************************************************)
EXTENDS Integers, Sequences, FiniteSets, TLC

VARIABLES teachers, credentials, projects, observations, blobs, nextId, now, nextCode, last,
          transactions

vars == <<teachers, credentials, projects, observations, blobs, nextId, now, nextCode, last,
          transactions>>

(***************************************************************************)
(* Bounds of the model.                                                    *)
(***************************************************************************)
MaxTeachers == 2
MaxProjects == 2
MaxObservations == 2
MaxQuantity == 2
MaxCodes == 2
MaxLifetimes == 1
MaxNumber == 4
OwnProjects == 2
OwnObservations == 1
FailProjects == 1
FailObservations == 1
MaxIdLen == 3

(***************************************************************************)
(* JavaScript values.  A value carries its type in the name of its field,  *)
(* so that values of different types compare unequal.  Strings of digits   *)
(* (ids as they appear in paths, bodies and headers) are kept as sequences *)
(* of characters: "07" and "7" are different strings that parse to the     *)
(* same number.                                                            *)
(***************************************************************************)
Str(s) == [str |-> s]
Digits(seq) == [digits |-> seq]
Num(n) == [num |-> n]
Bool(b) == [bool |-> b]
Null == [null |-> TRUE]
Obj(f) == [obj |-> f]
Undefined == [undefined |-> TRUE]

typeof(v) ==
    IF "str" \in DOMAIN v \/ "digits" \in DOMAIN v THEN "string"
    ELSE IF "num" \in DOMAIN v THEN "number"
    ELSE IF "bool" \in DOMAIN v THEN "boolean"
    ELSE IF "undefined" \in DOMAIN v THEN "undefined"
    ELSE "object"

StrLen(v) == IF "str" \in DOMAIN v THEN Len(v.str) ELSE Len(v.digits)

\* Object.keys(v) and v[key] (undefined when the key is absent).
Keys(v) == DOMAIN v.obj
Prop(v, key) == IF key \in DOMAIN v.obj THEN v.obj[key] ELSE Undefined

DigitChars == <<"0", "1", "2", "3", "4", "5", "6", "7", "8", "9">>
DigitVal(c) == (CHOOSE i \in 1..10 : DigitChars[i] = c) - 1
IsDigit(c) == \E i \in 1..10 : DigitChars[i] = c

\* Not-a-number, the result of parseInt on a string that starts with no digit.
NaN == -1

RECURSIVE parseDigits(_, _)
parseDigits(seq, acc) ==
    IF seq = <<>> \/ ~IsDigit(Head(seq)) THEN acc
    ELSE parseDigits(Tail(seq), 10 * acc + DigitVal(Head(seq)))

\* parseInt(s, 10) of a string of characters: the leading digits, NaN if none.
parseInt(seq) ==
    IF seq = <<>> \/ ~IsDigit(Head(seq)) THEN NaN ELSE parseDigits(seq, 0)

\* The decimal string Datastore returns as key.id for a generated id (1..9).
IdString(n) == <<DigitChars[n + 1]>>

\* The same id written with a leading zero, as a client may send it.
Padded(n) == <<"0">> \o IdString(n)

isValidId(seq) == \A i \in 1..Len(seq) : IsDigit(seq[i])

(***************************************************************************)
(* constants.js                                                            *)
(***************************************************************************)
DEFAULT_PROFILE_PHOTO == "defaultUserPhoto"
RESET_CODE_LIFETIME == 30 * 60 * 1000
PROJECT == "Project"
TEACHER == "Teacher"
OBSERVATION == "Observation"
CREDENTIAL == "Credential"
POST == "POST"
PATCH == "PATCH"
DELETE == "DELETE"
GET_ONE == "GET_ONE"

INVALID_IMAGE_URL == "The image URL provided is improperly formatted, the image does not exist, or the image is not in an acceptable format"
INVALID_PROPERTIES == "At least one parameter was missing, invalid, or extraneous."
INVALID_UPDATE == "No valid parameter was included or at least 1 parameter was invalid."
ITEM_NOT_FOUND == "The item you requested could not be found."
ANCESTOR_NOT_FOUND == "The project with project_id cannot be found."
TEACHER_NOT_FOUND == "The teacher with teacher_id cannot be found."
CREDENTIAL_NOT_FOUND == "No credentials could be found on file for the teacher whose credentials were provided."
SERVER_ERROR == "An internal server error has occurred."

\* Strings that contain a character other than a letter or a digit.
NonAlnumStrings == {"Rel@tivity1"}

VALIDATE_DS_ID(v) == "digits" \in DOMAIN v /\ isValidId(v.digits)
VALIDATE_STRING(v) == typeof(v) = "string" /\ StrLen(v) > 0
VALIDATE_STRING_OR_NULL(v) == VALIDATE_STRING(v) \/ v = Null
VALIDATE_EMBEDDED_OBJECT(v) == typeof(v) = "object" /\ v # Null

VALIDATE_PASSWORD(v) ==
    /\ "str" \in DOMAIN v
    /\ Len(v.str) >= 8 /\ Len(v.str) <= 16
    /\ v.str \notin NonAlnumStrings

VALIDATE_SECRET_QUESTIONS(v) ==
    /\ VALIDATE_EMBEDDED_OBJECT(v)
    /\ Cardinality(Keys(v)) = 4
    /\ VALIDATE_STRING(Prop(v, "question_1"))
    /\ VALIDATE_STRING(Prop(v, "question_2"))
    /\ VALIDATE_STRING(Prop(v, "answer_1"))
    /\ VALIDATE_STRING(Prop(v, "answer_2"))
    /\ Prop(v, "question_1") # Prop(v, "question_2")
    /\ Prop(v, "answer_1") # Prop(v, "answer_2")

VALIDATE_PROJECT_DATA_NUMBER(v) ==
    /\ VALIDATE_EMBEDDED_OBJECT(v)
    /\ Cardinality(Keys(v)) = 3
    /\ VALIDATE_STRING(Prop(v, "name"))
    /\ typeof(Prop(v, "must_be_unique")) = "boolean"
    /\ typeof(Prop(v, "number")) = "number"

VALIDATE_IMAGE(v) ==
    /\ VALIDATE_EMBEDDED_OBJECT(v)
    /\ Cardinality(Keys(v)) = 3
    /\ VALIDATE_STRING(Prop(v, "title"))
    /\ VALIDATE_STRING(Prop(v, "url"))
    /\ VALIDATE_STRING(Prop(v, "alt_text"))

VALIDATE_OBSERVATION_DATA_NUMBER(v) ==
    /\ VALIDATE_EMBEDDED_OBJECT(v)
    /\ Cardinality(Keys(v)) = 2
    /\ VALIDATE_STRING(Prop(v, "description"))
    /\ typeof(Prop(v, "quantity")) = "number"

\* prop.validator(value), the validator named by a Property.
Validator(name, v) ==
    CASE name = "VALIDATE_DS_ID" -> VALIDATE_DS_ID(v)
      [] name = "VALIDATE_STRING" -> VALIDATE_STRING(v)
      [] name = "VALIDATE_STRING_OR_NULL" -> VALIDATE_STRING_OR_NULL(v)
      [] name = "VALIDATE_PASSWORD" -> VALIDATE_PASSWORD(v)
      [] name = "VALIDATE_SECRET_QUESTIONS" -> VALIDATE_SECRET_QUESTIONS(v)
      [] name = "VALIDATE_PROJECT_DATA_NUMBER" -> VALIDATE_PROJECT_DATA_NUMBER(v)
      [] name = "VALIDATE_IMAGE" -> VALIDATE_IMAGE(v)
      [] name = "VALIDATE_OBSERVATION_DATA_NUMBER" -> VALIDATE_OBSERVATION_DATA_NUMBER(v)

Property(name, validator, required) ==
    [name |-> name, validator |-> validator, required |-> required]

\* COLLECTIONS.roots.projects, .roots.teachers, .children.observations and
\* CREDENTIAL_ENTITY_TYPE.
EntityTypes ==
    [Project |->
        [entityTypeName |-> PROJECT,
         createProperties |->
            <<Property("teacher_id", "VALIDATE_DS_ID", TRUE),
              Property("name", "VALIDATE_STRING", TRUE),
              Property("data_number", "VALIDATE_PROJECT_DATA_NUMBER", TRUE),
              Property("description_image", "VALIDATE_IMAGE", TRUE),
              Property("description_text", "VALIDATE_STRING", TRUE)>>,
         updateProperties |->
            <<Property("name", "VALIDATE_STRING", FALSE),
              Property("description_image", "VALIDATE_IMAGE", FALSE),
              Property("description_text", "VALIDATE_STRING", FALSE)>>,
         methodsRequiringCredentials |-> {POST, PATCH, DELETE},
         imageLocation |-> <<"description_image", "url">>],
     Teacher |->
        [entityTypeName |-> TEACHER,
         createProperties |->
            <<Property("name", "VALIDATE_STRING", TRUE),
              Property("email", "VALIDATE_STRING", TRUE),
              Property("school", "VALIDATE_STRING", TRUE),
              Property("password", "VALIDATE_PASSWORD", TRUE),
              Property("secret_questions", "VALIDATE_SECRET_QUESTIONS", TRUE)>>,
         updateProperties |->
            <<Property("name", "VALIDATE_STRING", FALSE),
              Property("profile_photo", "VALIDATE_STRING_OR_NULL", FALSE),
              Property("email", "VALIDATE_STRING", FALSE),
              Property("school", "VALIDATE_STRING", FALSE)>>,
         methodsRequiringCredentials |-> {GET_ONE, PATCH, DELETE},
         imageLocation |-> <<"profile_photo">>],
     Observation |->
        [entityTypeName |-> OBSERVATION,
         createProperties |->
            <<Property("date", "VALIDATE_STRING", TRUE),
              Property("data_image", "VALIDATE_IMAGE", TRUE),
              Property("data_number", "VALIDATE_OBSERVATION_DATA_NUMBER", TRUE),
              Property("data_description", "VALIDATE_STRING", TRUE)>>,
         updateProperties |->
            <<Property("date", "VALIDATE_STRING", FALSE),
              Property("data_image", "VALIDATE_IMAGE", FALSE),
              Property("data_number", "VALIDATE_OBSERVATION_DATA_NUMBER", FALSE),
              Property("data_description", "VALIDATE_STRING", FALSE)>>,
         methodsRequiringCredentials |-> {POST, PATCH, DELETE},
         imageLocation |-> <<"data_image", "url">>],
     Credential |->
        [entityTypeName |-> CREDENTIAL,
         createProperties |->
            <<Property("password", "VALIDATE_PASSWORD", TRUE),
              Property("secret_questions", "VALIDATE_SECRET_QUESTIONS", TRUE)>>,
         updateProperties |->
            <<Property("password", "VALIDATE_PASSWORD", FALSE),
              Property("secret_questions", "VALIDATE_SECRET_QUESTIONS", FALSE)>>,
         methodsRequiringCredentials |-> {POST, "PUT", PATCH, DELETE},
         imageLocation |-> <<>>]]

(***************************************************************************)
(* entity-type.js                                                          *)
(***************************************************************************)
\* A faulty validateProperties: keys that are no property of the set pass.
validatePropertiesIgnoringExtras(entityData, expectedProperties) ==
    LET entityDataKeys == Keys(entityData)
        idx == 1..Len(expectedProperties)
    IN  /\ \A i \in idx :
            /\ ~(expectedProperties[i].required /\ expectedProperties[i].name \notin entityDataKeys)
            /\ expectedProperties[i].name \in entityDataKeys =>
                 Validator(expectedProperties[i].validator,
                           entityData.obj[expectedProperties[i].name])
        /\ \E i \in idx : expectedProperties[i].name \in entityDataKeys

\* A faulty validateProperties: a body with none of the properties passes.
validatePropertiesAcceptingNone(entityData, expectedProperties) ==
    LET entityDataKeys == Keys(entityData)
        idx == 1..Len(expectedProperties)
        names == {expectedProperties[i].name : i \in idx}
    IN  /\ \A i \in idx :
            /\ ~(expectedProperties[i].required /\ expectedProperties[i].name \notin entityDataKeys)
            /\ expectedProperties[i].name \in entityDataKeys =>
                 Validator(expectedProperties[i].validator,
                           entityData.obj[expectedProperties[i].name])
        /\ \A key \in entityDataKeys : key \in names

validateProperties(entityData, expectedProperties) ==
    LET entityDataKeys == Keys(entityData)
        idx == 1..Len(expectedProperties)
        names == {expectedProperties[i].name : i \in idx}
        numProps == Cardinality({i \in idx : expectedProperties[i].name \in entityDataKeys})
    IN  /\ \A i \in idx :
            /\ ~(expectedProperties[i].required /\ expectedProperties[i].name \notin entityDataKeys)
            /\ expectedProperties[i].name \in entityDataKeys =>
                 Validator(expectedProperties[i].validator,
                           entityData.obj[expectedProperties[i].name])
        /\ ~(numProps < 1)
        /\ \A key \in entityDataKeys : key \in names

methodRequiresCredentials(entityType, method) ==
    method \in entityType.methodsRequiringCredentials

(***************************************************************************)
(* datastore.js: keys, and reads against the transaction's snapshot.       *)
(* A snapshot db is [teachers, credentials, projects, observations]; an    *)
(* entity that does not exist is NoEnt.  An observation is stored under    *)
(* its ancestor project, a credential under its ancestor teacher.          *)
(***************************************************************************)
NoEnt == [absent |-> TRUE]

\* transaction.get(key) for a root key [kind, id]: undefined when absent.
getRoot(table, id) == IF id \in DOMAIN table THEN table[id] ELSE NoEnt

\* transaction.get(key) for [Project, ancestorId, Observation, id].
getChild(db, ancestorId, id) ==
    IF id \in DOMAIN db.observations
       /\ db.observations[id] # NoEnt
       /\ db.observations[id].parent = ancestorId
    THEN db.observations[id].data
    ELSE NoEnt

\* A faulty getAncestorData: a project that does not exist reads as an empty
\* project of teacher 1.
getAncestorDataOrBlank(db, ancestorIdString, fail) ==
    IF fail = "getAncestorData" THEN NoEnt
    ELSE IF getRoot(db.projects, parseInt(ancestorIdString)) # NoEnt
    THEN getRoot(db.projects, parseInt(ancestorIdString))
    ELSE Obj([teacher_id |-> Digits(IdString(1)),
              data_number |-> Obj([name |-> Str("birds seen"),
                                   must_be_unique |-> Bool(FALSE),
                                   number |-> Num(0)])])

\* A failed or empty read gives null.
getAncestorData(db, ancestorIdString, fail) ==
    IF fail = "getAncestorData" THEN NoEnt
    ELSE getRoot(db.projects, parseInt(ancestorIdString))

\* A faulty teacherExists: every teacher_id passes.
teacherAlwaysExists(db, idString, fail) == TRUE

teacherExists(db, idString, fail) ==
    IF fail = "teacherExists" THEN FALSE
    ELSE getRoot(db.teachers, parseInt(idString)) # NoEnt

\* Buffered writes of a transaction, applied in order by commit.  id 0 is an
\* incomplete key: Datastore generates the id when the write is applied.
Save(kind, id, parent, data) ==
    [op |-> "save", kind |-> kind, id |-> id, parent |-> parent, data |-> data]
Delete(kind, id) ==
    [op |-> "delete", kind |-> kind, id |-> id, parent |-> 0, data |-> NoEnt]

\* The entity as the table of its kind keeps it.
Stored(w) ==
    IF w.kind = OBSERVATION THEN [parent |-> w.parent, data |-> w.data] ELSE w.data

TableOf(s, kind) ==
    CASE kind = TEACHER -> s.teachers
      [] kind = CREDENTIAL -> s.credentials
      [] kind = PROJECT -> s.projects
      [] kind = OBSERVATION -> s.observations

WithTable(s, kind, table) ==
    CASE kind = TEACHER -> [s EXCEPT !.teachers = table]
      [] kind = CREDENTIAL -> [s EXCEPT !.credentials = table]
      [] kind = PROJECT -> [s EXCEPT !.projects = table]
      [] kind = OBSERVATION -> [s EXCEPT !.observations = table]

\* The id a write lands on: a generated id for an incomplete key.  A
\* credential is keyed in the model by its ancestor teacher.
TargetId(s, w) ==
    IF w.kind = CREDENTIAL THEN w.parent
    ELSE IF w.id = 0 THEN s.nextId[w.kind] + 1
    ELSE w.id

applyWrite(s, w) ==
    LET id == TargetId(s, w)
        table == TableOf(s, w.kind)
        s1 == IF w.id = 0 /\ w.kind # CREDENTIAL
              THEN [s EXCEPT !.nextId[w.kind] = id]
              ELSE s
    IN  IF id \notin DOMAIN table THEN s1
        ELSE WithTable(s1, w.kind,
                 [table EXCEPT ![id] = IF w.op = "save" THEN Stored(w) ELSE NoEnt])

RECURSIVE applyWrites(_, _)
applyWrites(s, writes) ==
    IF writes = <<>> THEN s
    ELSE applyWrites(applyWrite(s, Head(writes)), Tail(writes))

(***************************************************************************)
(* storage.js: the bucket is the set of image URLs it serves.              *)
(***************************************************************************)
\* URLs that do not parse into the five components of a bucket URL.
MalformedUrls == {"notAnImageUrl"}

\* A faulty validateImageUrl: every URL passes.
validateAnyImageUrl(bucket, imageUrl) == TRUE

\* Well-formed URL of this bucket, the image exists and is a JPEG or PNG.
validateImageUrl(bucket, imageUrl) ==
    /\ "str" \in DOMAIN imageUrl
    /\ imageUrl.str \notin MalformedUrls
    /\ imageUrl.str \in bucket

\* A faulty deleteImage: the blob stays.
deleteNoImage(bucket, imageUrl, fail) == [ok |-> TRUE, bucket |-> bucket]

\* bucket.file(name).delete(): [ok, bucket]; an error is caught and gives false.
deleteImage(bucket, imageUrl, fail) ==
    IF fail = "deleteImage" \/ "str" \notin DOMAIN imageUrl
       \/ imageUrl.str \in MalformedUrls \/ imageUrl.str \notin bucket
    THEN [ok |-> FALSE, bucket |-> bucket]
    ELSE [ok |-> TRUE, bucket |-> bucket \ {imageUrl.str}]

RECURSIVE getPath(_, _)
getPath(prop, imagePath) ==
    IF imagePath = <<>> THEN prop
    ELSE LET next == IF typeof(prop) = "object" /\ prop # Null
                     THEN Prop(prop, Head(imagePath)) ELSE Undefined
         IN  IF next = Undefined THEN Null ELSE getPath(next, Tail(imagePath))

\* null when the type has no image or the entity data has none.
getImageUrl(entityData, entityType) ==
    IF entityType.imageLocation = <<>> THEN Null
    ELSE getPath(entityData, entityType.imageLocation)

(***************************************************************************)
(* auth.js: Credential, SecretQuestions, ResetCode.                        *)
(* A stored credential is [password, secret_questions, reset_code], every  *)
(* string field encrypted on its own.  Secrets are plain strings; the      *)
(* expiry is the decimal string of a time in milliseconds.                 *)
(***************************************************************************)
\* AES under the process-wide secret: decryptString(encryptString(s)) = s.
encryptString(plaintext) == [cipher |-> plaintext]
decryptString(ciphertext) == ciphertext.cipher

RECURSIVE toString10(_)
\* n.toString(10) for n >= 0.
toString10(n) ==
    IF n < 10 THEN <<DigitChars[n + 1]>>
    ELSE toString10(n \div 10) \o <<DigitChars[(n % 10) + 1]>>

\* uuid.v4(): the k-th code generated, different from every other one.
uuidV4(k) == "uuid-" \o ToString(k)

SecretQuestionKeys == {"question_1", "question_2", "answer_1", "answer_2"}

\* SecretQuestions of a JSON object, as a record of plain strings.
SecretQuestions(json) == [k \in SecretQuestionKeys |-> Prop(json, k)]

\* A faulty encryptSecretQuestions: the questions and answers stay as they are.
leaveSecretQuestions(sq) == sq

encryptSecretQuestions(sq) == [k \in DOMAIN sq |-> encryptString(sq[k])]
decryptSecretQuestions(sq) == [k \in DOMAIN sq |-> decryptString(sq[k])]
encryptResetCode(rc) ==
    [code |-> encryptString(rc.code), expires |-> encryptString(rc.expires)]
decryptResetCode(rc) ==
    [code |-> decryptString(rc.code), expires |-> decryptString(rc.expires)]

\* new ResetCode(): no code has been issued.
emptyResetCode == [code |-> "", expires |-> <<>>]

\* ResetCode.refreshCode at time t with the k-th generated code.
refreshCode(k, t) ==
    [code |-> uuidV4(k), expires |-> toString10(t + RESET_CODE_LIFETIME)]

\* A faulty isUnexpired: the code is still good at the instant it expires.
isUnexpiredAtExpiry(rc, t) ==
    LET expirationTime == parseInt(rc.expires)
    IN  expirationTime # NaN /\ t <= expirationTime

\* A faulty isUnexpired: a code without expiration time never expires.
isUnexpiredOrUnset(rc, t) ==
    LET expirationTime == parseInt(rc.expires)
    IN  expirationTime = NaN \/ t < expirationTime

\* ResetCode.isUnexpired at time t; a comparison with NaN is false.
isUnexpired(rc, t) ==
    LET expirationTime == parseInt(rc.expires)
    IN  expirationTime # NaN /\ t < expirationTime

\* ResetCode.clearCode.
clearCode == [code |-> "", expires |-> <<>>]

\* new Credential({password, secret_questions}, false): encrypts all fields.
newCredential(password, secretQuestions) ==
    [password |-> encryptString(password),
     secret_questions |-> encryptSecretQuestions(secretQuestions),
     reset_code |-> encryptResetCode(emptyResetCode)]

\* A faulty generateResetCodeChallenge: a code on file is not replaced.
generateResetCodeChallengeOnce(cred, k, t) ==
    LET sq == decryptSecretQuestions(cred.secret_questions)
        rc == refreshCode(k, t)
    IN  [credential |-> IF decryptResetCode(cred.reset_code).code = ""
                        THEN [cred EXCEPT !.reset_code = encryptResetCode(rc)]
                        ELSE cred,
         challenge |-> [secret_question_1 |-> sq["question_1"],
                        secret_question_2 |-> sq["question_2"],
                        reset_code |-> rc.code]]

\* [credential, challenge] of Credential.generateResetCodeChallenge.
generateResetCodeChallenge(cred, k, t) ==
    LET sq == decryptSecretQuestions(cred.secret_questions)
        rc == refreshCode(k, t)
    IN  [credential |-> [cred EXCEPT !.reset_code = encryptResetCode(rc)],
         challenge |-> [secret_question_1 |-> sq["question_1"],
                        secret_question_2 |-> sq["question_2"],
                        reset_code |-> rc.code]]

\* A faulty updatePassword: the reset code on file is cleared as well.
updatePasswordClearingCode(cred, newPassword) ==
    [cred EXCEPT !.password = encryptString(newPassword),
                 !.reset_code = encryptResetCode(clearCode)]

\* A faulty updatePassword: the password on file stays.
keepPassword(cred, newPassword) == cred

updatePassword(cred, newPassword) ==
    [cred EXCEPT !.password = encryptString(newPassword)]

updateSecretQuestions(cred, newSecretQuestions) ==
    [cred EXCEPT !.secret_questions = encryptSecretQuestions(newSecretQuestions)]


\* A faulty clearResetCode: the code stays on file.
keepResetCode(cred) == cred

clearResetCode(cred) == [cred EXCEPT !.reset_code = encryptResetCode(clearCode)]

\* A faulty passwordsMatch: every password passes.
anyPasswordMatches(cred, passwordFromClient) == TRUE

passwordsMatch(cred, passwordFromClient) ==
    passwordFromClient = decryptString(cred.password)

\* A faulty secretQuestionsMatch: any questions and answers pass.
anySecretQuestionsMatch(cred, fromClient) == TRUE

\* SecretQuestions.deepCompare on the decrypted questions and answers.
secretQuestionsMatch(cred, fromClient) ==
    LET mine == decryptSecretQuestions(cred.secret_questions)
    IN  \A k \in SecretQuestionKeys : mine[k] = Prop(fromClient, k)

resetCodeValid(cred, resetCodeFromClient, t) ==
    LET rc == decryptResetCode(cred.reset_code)
        resetCodesMatch == resetCodeFromClient = rc.code
        resetCodeUnexpired == isUnexpired(rc, t)
    IN  resetCodesMatch /\ resetCodeUnexpired

\* teacher_id of the project, null when the read fails or there is none.
getTeacherOfProject(db, projectIdString, fail) ==
    LET project == getRoot(db.projects, parseInt(projectIdString))
    IN  IF fail = "getTeacherOfProject" \/ project = NoEnt THEN Null
        ELSE Prop(project, "teacher_id")

\* The one credential under the teacher's key, null when the query fails or
\* does not return exactly one entity.
getCredential(db, teacherIdString, fail) ==
    IF fail = "getCredential" THEN NoEnt
    ELSE getRoot(db.credentials, parseInt(teacherIdString))

(***************************************************************************)
(* An Authorization header as the handler takes it apart: the index of the *)
(* first space, the scheme before it, and the base64-decoded credentials   *)
(* split at ":" into the id (a string of characters) and secrets.          *)
(***************************************************************************)
NoHeader == [missing |-> TRUE]
Header(spaceIndex, authType, parts) ==
    [spaceIndex |-> spaceIndex, authType |-> authType, parts |-> parts]
Basic(idString, secret) == Header(5, "Basic", <<idString, secret>>)

\* server-response.js.
ServerResponse(status, content) == [status |-> status, content |-> content]

\* null: validateAuthHeader found nothing wrong.
Valid == ServerResponse(0, "")

\* A faulty ownership check: any teacher passes.
ownsAnyResource(teacherIdExpected, teacherIdReceived) == TRUE

\* teacherIdExpected === null || teacherIdReceived === teacherIdExpected.
ownsResource(teacherIdExpected, teacherIdReceived) ==
    teacherIdExpected = Null \/ Digits(teacherIdReceived) = teacherIdExpected

validateAuthHeader(db, authReceived, teacherIdExpected, credentialExpected, useResetCode, t, fail) ==
    IF authReceived = NoHeader
    THEN ServerResponse(401, "Authorization is required to access this endpoint.")
    ELSE IF authReceived.spaceIndex <= 0
    THEN ServerResponse(400, "The authorization credentials included could not be parsed")
    ELSE IF authReceived.authType # "Basic"
    THEN ServerResponse(401, "Only Basic-type authorization headers are accepted")
    ELSE IF Len(authReceived.parts) # 2
    THEN ServerResponse(400, "The authorization credentials included could not be parsed")
    ELSE LET teacherIdReceived == authReceived.parts[1]
             passwordReceived == authReceived.parts[2]
             credential == IF credentialExpected = Null
                           THEN getCredential(db, teacherIdReceived, fail)
                           ELSE credentialExpected
         IN  IF ~ownsResource(teacherIdExpected, teacherIdReceived)
             THEN ServerResponse(403,
                     "The teacher whose authorization credentials were provided does not own this resource.")
             ELSE IF credential = NoEnt
             THEN ServerResponse(404, CREDENTIAL_NOT_FOUND)
             ELSE IF useResetCode
             THEN IF resetCodeValid(credential, passwordReceived, t) THEN Valid
                  ELSE ServerResponse(401, "The reset code provided is incorrect and/or expired.")
             ELSE IF passwordsMatch(credential, passwordReceived) THEN Valid
                  ELSE ServerResponse(401, "The password provided is incorrect.")

(***************************************************************************)
(* data-number.js: the derived counter project.data_number.number.         *)
(***************************************************************************)
\* ObservationDataNumber.deepEquals.
deepEquals(odn, otherODN) ==
    /\ Prop(odn, "quantity") = Prop(otherODN, "quantity")
    /\ Prop(odn, "description") = Prop(otherODN, "description")

\* new ProjectDataNumber(json): name, number and must_be_unique only.
ProjectDataNumber(json) ==
    [name |-> Prop(json, "name"),
     number |-> Prop(json, "number").num,
     must_be_unique |-> Prop(json, "must_be_unique")]

\* The data_number saved back into the project.
PDNJson(pdn) ==
    Obj([name |-> pdn.name, number |-> Num(pdn.number), must_be_unique |-> pdn.must_be_unique])

\* A faulty addObservation: every observation counts once, whatever the mode.
addObservationCountsOne(pdn, newODN, otherODNDescriptions) ==
    IF Prop(newODN, "description") \in otherODNDescriptions /\ pdn.must_be_unique = Bool(TRUE)
    THEN [pdn |-> pdn, changed |-> FALSE]
    ELSE [pdn |-> [pdn EXCEPT !.number = @ + 1], changed |-> TRUE]

\* [pdn, changed] of ProjectDataNumber.addObservation.
addObservation(pdn, newODN, otherODNDescriptions) ==
    IF pdn.must_be_unique = Bool(TRUE)
    THEN IF Prop(newODN, "description") \in otherODNDescriptions
         THEN [pdn |-> pdn, changed |-> FALSE]
         ELSE [pdn |-> [pdn EXCEPT !.number = @ + 1], changed |-> TRUE]
    ELSE [pdn |-> [pdn EXCEPT !.number = @ + Prop(newODN, "quantity").num],
          changed |-> TRUE]

\* A faulty deleteObservation: the old contribution stays in the number.
deleteNoObservation(pdn, oldODN, otherODNDescriptions) == [pdn |-> pdn, changed |-> FALSE]

\* [pdn, changed] of ProjectDataNumber.deleteObservation.
deleteObservation(pdn, oldODN, otherODNDescriptions) ==
    IF pdn.must_be_unique = Bool(TRUE)
    THEN IF Prop(oldODN, "description") \in otherODNDescriptions
         THEN [pdn |-> pdn, changed |-> FALSE]
         ELSE [pdn |-> [pdn EXCEPT !.number = @ - 1], changed |-> TRUE]
    ELSE [pdn |-> [pdn EXCEPT !.number = @ - Prop(oldODN, "quantity").num],
          changed |-> TRUE]

\* [failed, descriptions]: the descriptions of the snapshot's observations
\* under the project, but for the one whose key.id is the string
\* observationIdToExclude (Null: none); failed when the query fails (null).
getOtherODNDescriptions(db, projectId, observationIdToExclude, fail) ==
    IF fail = "getOtherODNDescriptions" THEN [failed |-> TRUE, descriptions |-> {}]
    ELSE [failed |-> FALSE,
          descriptions |->
            {Prop(Prop(db.observations[o].data, "data_number"), "description") :
               o \in {i \in DOMAIN db.observations :
                        /\ db.observations[i] # NoEnt
                        /\ db.observations[i].parent = projectId
                        /\ Digits(IdString(i)) # observationIdToExclude}}]

\* A faulty saveUpdatedProject: a failed save is reported as done.
saveUpdatedProjectUnchecked(projectId, currentProjectData, newProjectDataNumber, fail) ==
    [ok |-> TRUE,
     writes |-> IF fail = "saveUpdatedProject" THEN <<>>
                ELSE <<Save(PROJECT, projectId, 0,
                            Obj([currentProjectData.obj EXCEPT
                                   !["data_number"] = PDNJson(newProjectDataNumber)]))>>]

\* [ok, writes] of saveUpdatedProject: the project with its new data_number.
saveUpdatedProject(projectId, currentProjectData, newProjectDataNumber, fail) ==
    IF fail = "saveUpdatedProject" THEN [ok |-> FALSE, writes |-> <<>>]
    ELSE [ok |-> TRUE,
          writes |-> <<Save(PROJECT, projectId, 0,
                            Obj([currentProjectData.obj EXCEPT
                                   !["data_number"] = PDNJson(newProjectDataNumber)]))>>]

NotOk == [ok |-> FALSE, writes |-> <<>>]
OkNoWrite == [ok |-> TRUE, writes |-> <<>>]

processPostedObservation(db, projectId, projectData, observationDataNumberJSON, fail) ==
    LET projectDataNumber == ProjectDataNumber(Prop(projectData, "data_number"))
        otherODNDescriptions ==
            IF projectDataNumber.must_be_unique = Bool(TRUE)
            THEN getOtherODNDescriptions(db, projectId, Null, fail)
            ELSE [failed |-> FALSE, descriptions |-> {}]
    IN  IF otherODNDescriptions.failed THEN NotOk
        ELSE LET r == addObservation(projectDataNumber, observationDataNumberJSON,
                                     otherODNDescriptions.descriptions)
             IN  IF r.changed
                 THEN saveUpdatedProject(projectId, projectData, r.pdn, fail)
                 ELSE OkNoWrite

processUpdatedObservation(db, ancestorIdString, observationId, oldODN_JSON, newODN_JSON, fail) ==
    IF deepEquals(newODN_JSON, oldODN_JSON) THEN OkNoWrite
    ELSE
    LET projectId == parseInt(ancestorIdString)
        currentProjectData == getAncestorData(db, ancestorIdString, fail)
    IN  IF currentProjectData = NoEnt THEN NotOk
        ELSE
        LET projectDataNumber == ProjectDataNumber(Prop(currentProjectData, "data_number"))
            unique == projectDataNumber.must_be_unique = Bool(TRUE)
        IN  IF unique /\ Prop(oldODN_JSON, "description") = Prop(newODN_JSON, "description")
            THEN OkNoWrite
            ELSE
            LET otherODNDescriptions ==
                    IF unique
                    THEN getOtherODNDescriptions(db, projectId, Digits(observationId), fail)
                    ELSE [failed |-> FALSE, descriptions |-> {}]
            IN  IF otherODNDescriptions.failed THEN NotOk
                ELSE
                LET oldPDNNumber == projectDataNumber.number
                    d == deleteObservation(projectDataNumber, oldODN_JSON,
                                           otherODNDescriptions.descriptions)
                    a == addObservation(d.pdn, newODN_JSON,
                                        otherODNDescriptions.descriptions)
                    newPDNNumber == a.pdn.number
                IN  IF oldPDNNumber # newPDNNumber
                    THEN saveUpdatedProject(projectId, currentProjectData, a.pdn, fail)
                    ELSE OkNoWrite

processDeletedObservation(db, ancestorIdString, observationId, observationDataNumber_JSON, fail) ==
    LET projectId == parseInt(ancestorIdString)
        currentProjectData == getAncestorData(db, ancestorIdString, fail)
    IN  IF currentProjectData = NoEnt THEN NotOk
        ELSE
        LET projectDataNumber == ProjectDataNumber(Prop(currentProjectData, "data_number"))
            otherODNDescriptions ==
                IF projectDataNumber.must_be_unique = Bool(TRUE)
                THEN getOtherODNDescriptions(db, projectId, Digits(observationId), fail)
                ELSE [failed |-> FALSE, descriptions |-> {}]
        IN  IF otherODNDescriptions.failed THEN NotOk
            ELSE LET r == deleteObservation(projectDataNumber, observationDataNumber_JSON,
                                            otherODNDescriptions.descriptions)
                 IN  IF r.changed
                     THEN saveUpdatedProject(projectId, currentProjectData, r.pdn, fail)
                     ELSE OkNoWrite

(***************************************************************************)
(* batch-delete.js.  Each returns [ok, writes, bucket]; an exception is    *)
(* caught inside and gives ok = FALSE with no write buffered.              *)
(***************************************************************************)
\* The bucket after deleteImage on each URL of the set.
RECURSIVE deleteImages(_, _, _)
deleteImages(bucket, urls, fail) ==
    IF urls = {} THEN bucket
    ELSE LET u == CHOOSE x \in urls : TRUE
         IN  deleteImages(deleteImage(bucket, u, fail).bucket, urls \ {u}, fail)

ObservationsOf(db, projectId) ==
    {i \in DOMAIN db.observations :
        db.observations[i] # NoEnt /\ db.observations[i].parent = projectId}

\* An ordering of a finite set of ids, the order of a query's result.
RECURSIVE SeqOf(_)
SeqOf(S) ==
    IF S = {} THEN <<>>
    ELSE LET m == CHOOSE x \in S : \A y \in S : x <= y
         IN  <<m>> \o SeqOf(S \ {m})

deleteObservationsOfProject(db, bucket, projectId, fail) ==
    IF fail = "deleteObservationsOfProject"
    THEN [ok |-> FALSE, writes |-> <<>>, bucket |-> bucket]
    ELSE LET obs == ObservationsOf(db, projectId)
             ids == SeqOf(obs)
             urls == {Prop(Prop(db.observations[o].data, "data_image"), "url") : o \in obs}
         IN  [ok |-> TRUE,
              writes |-> [i \in 1..Len(ids) |-> Delete(OBSERVATION, ids[i])],
              bucket |-> deleteImages(bucket, urls, fail)]

\* The projects whose teacher_id is the string teacherId.
ProjectsOfTeacher(db, teacherId) ==
    {i \in DOMAIN db.projects :
        db.projects[i] # NoEnt /\ Prop(db.projects[i], "teacher_id") = teacherId}

RECURSIVE deleteEachProject(_, _, _, _)
\* The loop over the query's projects: [writes, bucket].
deleteEachProject(db, bucket, ids, fail) ==
    IF ids = <<>> THEN [writes |-> <<>>, bucket |-> bucket]
    ELSE LET p == Head(ids)
             img == deleteImage(bucket,
                        Prop(Prop(db.projects[p], "description_image"), "url"), fail)
             obs == deleteObservationsOfProject(db, img.bucket, p, fail)
             rest == deleteEachProject(db, obs.bucket, Tail(ids), fail)
         IN  [writes |-> obs.writes \o rest.writes, bucket |-> rest.bucket]

deleteProjectsOfTeacher(db, bucket, teacherId, fail) ==
    IF fail = "deleteProjectsOfTeacher"
    THEN [ok |-> FALSE, writes |-> <<>>, bucket |-> bucket]
    ELSE LET ids == SeqOf(ProjectsOfTeacher(db, teacherId))
             each == deleteEachProject(db, bucket, ids, fail)
         IN  [ok |-> TRUE,
              writes |-> each.writes \o [i \in 1..Len(ids) |-> Delete(PROJECT, ids[i])],
              bucket |-> each.bucket]

\* [ok, writes] of deleteCredential.
deleteCredential(db, teacherIdString, fail) ==
    IF fail = "deleteCredential" \/ getCredential(db, teacherIdString, fail) = NoEnt
    THEN NotOk
    ELSE [ok |-> TRUE,
          writes |-> <<[op |-> "delete", kind |-> CREDENTIAL, id |-> 0,
                        parent |-> parseInt(teacherIdString), data |-> NoEnt]>>]

(***************************************************************************)
(* crud.js.  A handler's outcome: the response status, the writes that     *)
(* reached the store (the committed buffer, and writes made outside the    *)
(* transaction), the bucket after the handler, and the calls made on the   *)
(* transaction.  fail names the store or bucket call that fails during     *)
(* this request ("none": no failure).                                      *)
(***************************************************************************)
Ancestor(entityId) == [collectionName |-> "projects", entityId |-> entityId]
NoAncestor == [none |-> TRUE]

Outcome(status, content, writes, bucket, tx) ==
    [status |-> status, content |-> content, writes |-> writes, bucket |-> bucket, tx |-> tx]

\* transaction.commit() and the response after it; a failed commit throws and
\* the handler's catch rolls back and answers 500.
Commit(status, content, writes, bucket, fail) ==
    IF fail = "commit"
    THEN Outcome(500, SERVER_ERROR, <<>>, bucket, <<"run", "commit", "rollback">>)
    ELSE Outcome(status, content, writes, bucket, <<"run", "commit">>)

Rollback(status, content, bucket) ==
    Outcome(status, content, <<>>, bucket, <<"run", "rollback">>)

\* A faulty delete: the properties stay on entityData.
WithoutNothing(entityData, keys) == entityData

\* entityData without the keys of the set.
Without(entityData, keys) ==
    Obj([k \in Keys(entityData) \ keys |-> entityData.obj[k]])

\* entityData with data[key] = value.
With(entityData, key, value) ==
    Obj([k \in Keys(entityData) \cup {key} |->
            IF k = key THEN value ELSE entityData.obj[k]])

\* [ok, writes] of postCredential, a save outside any transaction.
postCredential(credentialToAdd, teacherId, fail) ==
    IF fail = "postCredential" THEN NotOk
    ELSE [ok |-> TRUE, writes |-> <<Save(CREDENTIAL, 0, teacherId, credentialToAdd)>>]

postEntity(db, bucket, entityData, kind, authReceived, entityAncestor, t, fail) ==
    LET entityType == EntityTypes[kind]
        imageUrl == getImageUrl(entityData, entityType)
    IN
    IF ~validateProperties(entityData, entityType.createProperties)
    THEN Outcome(400, INVALID_PROPERTIES, <<>>, bucket, <<>>)
    ELSE IF imageUrl # Null /\ ~validateImageUrl(bucket, imageUrl)
    THEN Outcome(400, INVALID_IMAGE_URL, <<>>, bucket, <<>>)
    ELSE
    LET ancestorData ==
            IF entityAncestor # NoAncestor
            THEN getAncestorData(db, entityAncestor.entityId, fail)
            ELSE Null
    IN
    IF entityAncestor # NoAncestor /\ ancestorData = NoEnt
    THEN Rollback(404, ANCESTOR_NOT_FOUND, bucket)
    ELSE IF kind = PROJECT /\ ~teacherExists(db, Prop(entityData, "teacher_id").digits, fail)
    THEN Outcome(404, TEACHER_NOT_FOUND, <<>>, bucket, <<"run">>)
    ELSE
    LET teacherIdExpected ==
            IF kind = PROJECT THEN Prop(entityData, "teacher_id")
            ELSE Prop(ancestorData, "teacher_id")
        responseInfo ==
            IF methodRequiresCredentials(entityType, POST)
            THEN validateAuthHeader(db, authReceived, teacherIdExpected, Null, FALSE, t, fail)
            ELSE Valid
    IN
    IF responseInfo # Valid THEN Rollback(responseInfo.status, responseInfo.content, bucket)
    ELSE
    LET toSave ==
            IF kind = TEACHER
            THEN Without(With(entityData, "profile_photo", Str(DEFAULT_PROFILE_PHOTO)),
                         {"password", "secret_questions"})
            ELSE entityData
        parent == IF kind = OBSERVATION THEN parseInt(entityAncestor.entityId) ELSE 0
        saved == <<Save(kind, 0, parent, toSave)>>
        counted ==
            IF kind = OBSERVATION
            THEN processPostedObservation(db, parent, ancestorData,
                                          Prop(entityData, "data_number"), fail)
            ELSE OkNoWrite
    IN
    IF ~counted.ok THEN Rollback(500, SERVER_ERROR, bucket)
    ELSE
    LET committed == Commit(201, "created", saved \o counted.writes, bucket, fail)
    IN
    IF committed.status # 201 \/ kind # TEACHER THEN committed
    ELSE
    LET credentialDataCopy ==
            newCredential(Prop(entityData, "password").str,
                          SecretQuestions(Prop(entityData, "secret_questions")))
        posted == postCredential(credentialDataCopy, db.nextId[TEACHER] + 1, fail)
    IN  IF ~posted.ok THEN [committed EXCEPT !.status = 500, !.content = SERVER_ERROR]
        ELSE [committed EXCEPT !.writes = @ \o posted.writes]

\* transaction.get of the entity of a request.
getEntityData(db, kind, entityId, entityAncestor) ==
    IF kind = OBSERVATION
    THEN getChild(db, parseInt(entityAncestor.entityId), parseInt(entityId))
    ELSE getRoot(TableOf(db, kind), parseInt(entityId))

\* The teacher_id expected to sign a PATCH or DELETE (Null: none could be read).
teacherIdExpectedFor(db, kind, entityId, entity, entityAncestor, fail) ==
    IF kind = TEACHER THEN Digits(entityId)
    ELSE IF kind = PROJECT THEN Prop(entity, "teacher_id")
    ELSE getTeacherOfProject(db, entityAncestor.entityId, fail)

\* A faulty merge: the entity is replaced by the patch.
applyPatchesOnly(entity, patches, keys) == patches

RECURSIVE applyPatches(_, _, _)
\* entityToUpdate[propKey] = entityPatches[propKey] for each key of the patch.
applyPatches(entity, patches, keys) ==
    IF keys = {} THEN entity
    ELSE LET k == CHOOSE x \in keys : TRUE
         IN  applyPatches(With(entity, k, patches.obj[k]), patches, keys \ {k})

updateEntity(db, bucket, entityPatches, kind, entityId, authReceived, entityAncestor, t, fail) ==
    LET entityType == EntityTypes[kind]
        entityToUpdate == getEntityData(db, kind, entityId, entityAncestor)
    IN
    IF ~validateProperties(entityPatches, entityType.updateProperties)
    THEN Outcome(400, INVALID_UPDATE, <<>>, bucket, <<>>)
    ELSE IF fail = "get" THEN Rollback(500, SERVER_ERROR, bucket)
    ELSE IF entityToUpdate = NoEnt THEN Rollback(404, ITEM_NOT_FOUND, bucket)
    ELSE
    LET teacherIdExpected ==
            teacherIdExpectedFor(db, kind, entityId, entityToUpdate, entityAncestor, fail)
    IN
    IF teacherIdExpected = Null THEN Rollback(500, SERVER_ERROR, bucket)
    ELSE
    LET responseInfo ==
            validateAuthHeader(db, authReceived, teacherIdExpected, Null, FALSE, t, fail)
    IN
    IF responseInfo # Valid THEN Rollback(responseInfo.status, responseInfo.content, bucket)
    ELSE
    LET oldImageUrl == getImageUrl(entityToUpdate, entityType)
        newImageUrl == getImageUrl(entityPatches, entityType)
        photoToDefault == kind = TEACHER /\ Prop(entityPatches, "profile_photo") = Null
        imageChanged == ~photoToDefault /\ newImageUrl # Null /\ newImageUrl # oldImageUrl
    IN
    IF imageChanged /\ ~validateImageUrl(bucket, newImageUrl)
    THEN Rollback(400, INVALID_IMAGE_URL, bucket)
    ELSE
    LET bucketAfter ==
            IF (photoToDefault \/ imageChanged) /\ oldImageUrl # Str(DEFAULT_PROFILE_PHOTO)
            THEN deleteImage(bucket, oldImageUrl, fail).bucket
            ELSE bucket
        patches ==
            IF photoToDefault
            THEN With(entityPatches, "profile_photo", Str(DEFAULT_PROFILE_PHOTO))
            ELSE entityPatches
        updated == applyPatches(entityToUpdate, patches, Keys(patches))
        id == parseInt(entityId)
        parent == IF kind = OBSERVATION THEN parseInt(entityAncestor.entityId) ELSE 0
        saved == <<Save(kind, id, parent, updated)>>
        counted ==
            IF kind = OBSERVATION /\ "data_number" \in Keys(entityPatches)
            THEN processUpdatedObservation(db, entityAncestor.entityId, entityId,
                     Prop(entityToUpdate, "data_number"),
                     Prop(entityPatches, "data_number"), fail)
            ELSE OkNoWrite
    IN
    IF ~counted.ok THEN Rollback(500, SERVER_ERROR, bucketAfter)
    ELSE Commit(200, "updated", saved \o counted.writes, bucketAfter, fail)

deleteEntity(db, bucket, kind, entityId, authReceived, entityAncestor, t, fail) ==
    LET entityType == EntityTypes[kind]
        entity == getEntityData(db, kind, entityId, entityAncestor)
    IN
    IF fail = "get" THEN Rollback(500, SERVER_ERROR, bucket)
    ELSE IF entity = NoEnt THEN Rollback(404, ITEM_NOT_FOUND, bucket)
    ELSE
    LET teacherIdExpected ==
            teacherIdExpectedFor(db, kind, entityId, entity, entityAncestor, fail)
    IN
    IF teacherIdExpected = Null THEN Rollback(500, SERVER_ERROR, bucket)
    ELSE
    LET responseInfo ==
            validateAuthHeader(db, authReceived, teacherIdExpected, Null, FALSE, t, fail)
    IN
    IF responseInfo # Valid THEN Rollback(responseInfo.status, responseInfo.content, bucket)
    ELSE
    LET imageUrl == getImageUrl(entity, entityType)
        bucket1 ==
            IF imageUrl # Null /\ imageUrl # Str(DEFAULT_PROFILE_PHOTO)
            THEN deleteImage(bucket, imageUrl, fail).bucket
            ELSE bucket
        id == parseInt(entityId)
        cascade ==
            IF kind = PROJECT THEN deleteObservationsOfProject(db, bucket1, id, fail)
            ELSE IF kind = TEACHER
            THEN deleteProjectsOfTeacher(db, bucket1, Digits(entityId), fail)
            ELSE [ok |-> TRUE, writes |-> <<>>, bucket |-> bucket1]
        credential ==
            IF kind = TEACHER THEN deleteCredential(db, entityId, fail) ELSE OkNoWrite
        deleted == <<Delete(kind, id)>>
        counted ==
            IF kind = OBSERVATION
            THEN processDeletedObservation(db, entityAncestor.entityId, entityId,
                                           Prop(entity, "data_number"), fail)
            ELSE OkNoWrite
    IN
    IF ~counted.ok THEN Rollback(500, SERVER_ERROR, cascade.bucket)
    ELSE Commit(204, "", cascade.writes \o credential.writes \o deleted \o counted.writes,
                cascade.bucket, fail)

\* On 200 the content is the entity with its id.  The transaction is committed
\* before the entity is looked at: a missing entity is answered 404 after
\* the commit.
getEntity(db, bucket, kind, entityId, authReceived, entityAncestor, t, fail) ==
    LET responseInfo ==
            IF kind = TEACHER
            THEN validateAuthHeader(db, authReceived, Digits(entityId), Null, FALSE, t, fail)
            ELSE Valid
        entity == getEntityData(db, kind, entityId, entityAncestor)
    IN
    IF responseInfo # Valid THEN Rollback(responseInfo.status, responseInfo.content, bucket)
    ELSE IF fail = "get" THEN Rollback(500, SERVER_ERROR, bucket)
    ELSE IF entity = NoEnt THEN Commit(404, ITEM_NOT_FOUND, <<>>, bucket, fail)
    ELSE Commit(200, With(entity, "id", Digits(IdString(parseInt(entityId)))), <<>>,
                bucket, fail)

\* On 200 the content is the set of the entities of the page, each with its
\* id: the observations under the ancestor, the projects of the teacher, or
\* all of the kind.  An unknown teacherId is answered 404 with no call on the
\* transaction after run().
getEntities(db, bucket, kind, entityAncestor, teacherId, fail) ==
    LET table == TableOf(db, kind)
        found ==
            {i \in DOMAIN table :
                /\ table[i] # NoEnt
                /\ entityAncestor # NoAncestor =>
                       table[i].parent = parseInt(entityAncestor.entityId)
                /\ teacherId # Null => Prop(table[i], "teacher_id") = teacherId}
    IN
    IF entityAncestor # NoAncestor
       /\ getAncestorData(db, entityAncestor.entityId, fail) = NoEnt
    THEN Rollback(404, ANCESTOR_NOT_FOUND, bucket)
    ELSE IF teacherId # Null /\ ~teacherExists(db, teacherId.digits, fail)
    THEN Outcome(404, TEACHER_NOT_FOUND, <<>>, bucket, <<"run">>)
    ELSE IF fail = "runQuery" THEN Rollback(500, SERVER_ERROR, bucket)
    ELSE Commit(200,
                {With(IF kind = OBSERVATION THEN table[i].data ELSE table[i],
                      "id", Digits(IdString(i))) : i \in found},
                <<>>, bucket, fail)

(***************************************************************************)
(* auth.js: the credential routes, and storage.js: postImage.              *)
(***************************************************************************)
\* On 200 the content is the reset code of the challenge sent to the client.
getCredentialResetChallenge(db, bucket, teacherId, t, k, fail) ==
    LET currentCredential == getCredential(db, teacherId, fail)
    IN  IF currentCredential = NoEnt THEN Rollback(404, TEACHER_NOT_FOUND, bucket)
        ELSE LET g == generateResetCodeChallenge(currentCredential, k, t)
             IN  Commit(200, g.challenge.reset_code,
                        <<Save(CREDENTIAL, 0, parseInt(teacherId), g.credential)>>,
                        bucket, fail)

updateCredentialPasswordKnown(db, bucket, credentialPatches, teacherId, authReceived, t, fail) ==
    LET entityType == EntityTypes[CREDENTIAL]
        credentialToUpdate == getCredential(db, teacherId, fail)
    IN
    IF ~validateProperties(credentialPatches, entityType.updateProperties)
    THEN Outcome(400, INVALID_UPDATE, <<>>, bucket, <<>>)
    ELSE IF ~teacherExists(db, teacherId, fail)
    THEN Rollback(404, TEACHER_NOT_FOUND, bucket)
    ELSE IF credentialToUpdate = NoEnt
    THEN Rollback(404, CREDENTIAL_NOT_FOUND, bucket)
    ELSE
    LET responseInfo ==
            validateAuthHeader(db, authReceived, Digits(teacherId), credentialToUpdate,
                               FALSE, t, fail)
    IN
    IF responseInfo # Valid THEN Rollback(responseInfo.status, responseInfo.content, bucket)
    ELSE
    LET c1 == IF "password" \in Keys(credentialPatches)
              THEN updatePassword(credentialToUpdate, Prop(credentialPatches, "password").str)
              ELSE credentialToUpdate
        c2 == IF "secret_questions" \in Keys(credentialPatches)
              THEN updateSecretQuestions(c1,
                       SecretQuestions(Prop(credentialPatches, "secret_questions")))
              ELSE c1
    IN  Commit(204, "", <<Save(CREDENTIAL, 0, parseInt(teacherId), c2)>>, bucket, fail)

resetUnknownPassword(db, bucket, requestBody, teacherId, authReceived, t, fail) ==
    LET entityType == EntityTypes[CREDENTIAL]
        credentialToUpdate == getCredential(db, teacherId, fail)
    IN
    IF ~validateProperties(requestBody, entityType.createProperties)
    THEN Outcome(400, INVALID_UPDATE, <<>>, bucket, <<>>)
    ELSE IF ~teacherExists(db, teacherId, fail)
    THEN Rollback(404, TEACHER_NOT_FOUND, bucket)
    ELSE IF credentialToUpdate = NoEnt
    THEN Rollback(404, CREDENTIAL_NOT_FOUND, bucket)
    ELSE
    LET responseInfo ==
            validateAuthHeader(db, authReceived, Digits(teacherId), credentialToUpdate,
                               TRUE, t, fail)
        newPassword == Prop(requestBody, "password").str
    IN
    IF responseInfo # Valid THEN Rollback(responseInfo.status, responseInfo.content, bucket)
    ELSE IF ~secretQuestionsMatch(credentialToUpdate, Prop(requestBody, "secret_questions"))
    THEN Rollback(401, "The secret questions and answers provided do not match those on file.",
                  bucket)
    ELSE IF passwordsMatch(credentialToUpdate, newPassword)
    THEN Rollback(403, "The new password cannot match the old one.", bucket)
    ELSE Commit(204, "",
                <<Save(CREDENTIAL, 0, parseInt(teacherId),
                       clearResetCode(updatePassword(credentialToUpdate, newPassword)))>>,
                bucket, fail)

\* Any teacher's valid credentials allow an upload; the image is then served
\* at publicUrl.
postImage(db, bucket, publicUrl, authReceived, t, fail) ==
    LET authResponse == validateAuthHeader(db, authReceived, Null, Null, FALSE, t, fail)
    IN  IF authResponse # Valid
        THEN Rollback(authResponse.status, authResponse.content, bucket)
        ELSE IF fail = "writeImageToStorage"
        THEN Rollback(500, "An error occurred while uploading the file you submitted to Cloud Storage",
                      bucket)
        ELSE Commit(201, publicUrl, <<>>, bucket \cup {publicUrl}, "none")

(***************************************************************************)
(* The state: the Datastore tables, the bucket, the ids and reset codes    *)
(* generated so far, the clock, the last request with its response, and    *)
(* the transactions of the requests that are being handled at once.        *)
(***************************************************************************)
\* Two requests may be in flight together.
Slots == {"a", "b"}

\* No request in the slot.
Idle == [phase |-> "idle"]

Kinds == {TEACHER, PROJECT, OBSERVATION}

store == [teachers |-> teachers, credentials |-> credentials, projects |-> projects,
          observations |-> observations, nextId |-> nextId]

MaxOf(kind) ==
    CASE kind = TEACHER -> MaxTeachers
      [] kind = PROJECT -> MaxProjects
      [] kind = OBSERVATION -> MaxObservations

Init ==
    /\ teachers = [i \in 1..MaxTeachers |-> NoEnt]
    /\ credentials = [i \in 1..MaxTeachers |-> NoEnt]
    /\ projects = [i \in 1..MaxProjects |-> NoEnt]
    /\ observations = [i \in 1..MaxObservations |-> NoEnt]
    /\ blobs = {DEFAULT_PROFILE_PHOTO}
    /\ nextId = [k \in Kinds |-> 0]
    /\ now = 0
    /\ nextCode = 0
    /\ last = [op |-> "init", kind |-> "", id |-> 0, status |-> 0, content |-> "",
               fail |-> "none", tx |-> <<>>]
    /\ transactions = [s \in Slots |-> Idle]

\* The handler's effects reach the store and the bucket; the response is kept.
Effects(out, op, kind, id, fail) ==
    LET s == applyWrites(store, out.writes)
    IN  /\ teachers' = s.teachers
        /\ credentials' = s.credentials
        /\ projects' = s.projects
        /\ observations' = s.observations
        /\ nextId' = s.nextId
        /\ blobs' = out.bucket
        /\ last' = [op |-> op, kind |-> kind, id |-> id, status |-> out.status,
                    content |-> out.content, fail |-> fail, tx |-> out.tx]

\* A request handled with no other request in flight.
Respond(out, op, kind, id, fail) ==
    /\ Effects(out, op, kind, id, fail)
    /\ UNCHANGED transactions

Post(entityData, kind, authReceived, entityAncestor, fail) ==
    /\ nextId[kind] < MaxOf(kind)
    /\ Respond(postEntity(store, blobs, entityData, kind, authReceived, entityAncestor,
                          now, fail),
               "post", kind, 0, fail)
    /\ UNCHANGED <<now, nextCode>>

Update(entityPatches, kind, entityId, authReceived, entityAncestor, fail) ==
    /\ Respond(updateEntity(store, blobs, entityPatches, kind, entityId, authReceived,
                            entityAncestor, now, fail),
               "update", kind, parseInt(entityId), fail)
    /\ UNCHANGED <<now, nextCode>>

Remove(kind, entityId, authReceived, entityAncestor, fail) ==
    /\ Respond(deleteEntity(store, blobs, kind, entityId, authReceived, entityAncestor,
                            now, fail),
               "delete", kind, parseInt(entityId), fail)
    /\ UNCHANGED <<now, nextCode>>

Get(kind, entityId, authReceived, entityAncestor, fail) ==
    /\ Respond(getEntity(store, blobs, kind, entityId, authReceived, entityAncestor,
                         now, fail),
               "get", kind, parseInt(entityId), fail)
    /\ UNCHANGED <<now, nextCode>>

GetAll(kind, entityAncestor, teacherId, fail) ==
    /\ Respond(getEntities(store, blobs, kind, entityAncestor, teacherId, fail),
               "getAll", kind, 0, fail)
    /\ UNCHANGED <<now, nextCode>>

Upload(publicUrl, authReceived, fail) ==
    /\ publicUrl \notin blobs
    /\ Respond(postImage(store, blobs, publicUrl, authReceived, now, fail),
               "postImage", "Image", 0, fail)
    /\ UNCHANGED <<now, nextCode>>

Challenge(teacherId, fail) ==
    /\ nextCode < MaxCodes
    /\ Respond(getCredentialResetChallenge(store, blobs, teacherId, now, nextCode + 1, fail),
               "challenge", CREDENTIAL, parseInt(teacherId), fail)
    /\ nextCode' = IF getCredential(store, teacherId, fail) # NoEnt
                   THEN nextCode + 1 ELSE nextCode
    /\ UNCHANGED now

PatchCredential(credentialPatches, teacherId, authReceived, fail) ==
    /\ Respond(updateCredentialPasswordKnown(store, blobs, credentialPatches, teacherId,
                                             authReceived, now, fail),
               "patchCredential", CREDENTIAL, parseInt(teacherId), fail)
    /\ UNCHANGED <<now, nextCode>>

ResetPassword(requestBody, teacherId, authReceived, fail) ==
    /\ Respond(resetUnknownPassword(store, blobs, requestBody, teacherId, authReceived,
                                    now, fail),
               "reset", CREDENTIAL, parseInt(teacherId), fail)
    /\ UNCHANGED <<now, nextCode>>

\* The instants the clock is looked at: one millisecond before, at, and one
\* millisecond after each multiple of the lifetime of a reset code.
Instants ==
    {k * RESET_CODE_LIFETIME + j : k \in 0..MaxLifetimes, j \in {-1, 0, 1}} \cap Nat

\* Time passes, up to the instant t.
Tick(t) ==
    /\ t > now
    /\ now' = t
    /\ last' = [op |-> "tick", kind |-> "", id |-> 0, status |-> 0, content |-> "",
                fail |-> "none", tx |-> <<>>]
    /\ UNCHANGED <<teachers, credentials, projects, observations, blobs, nextId, nextCode,
                   transactions>>

(***************************************************************************)
(* Requests.                                                               *)
(***************************************************************************)
Passwords == {"Relativity1", "Manhattan01"}
Descriptions == {"Goldfinch", "Robin"}
Quantities == 1..MaxQuantity
ImageUrls == {"img1", "img2"}

SecretQuestionsBody(answer_1) ==
    Obj([question_1 |-> Str("First pet?"), question_2 |-> Str("First school?"),
         answer_1 |-> Str(answer_1), answer_2 |-> Str("Elm Street")])

CredentialBody(password, answer_1) ==
    Obj([password |-> Str(password), secret_questions |-> SecretQuestionsBody(answer_1)])

TeacherBody(password) ==
    Obj([name |-> Str("Ada"), email |-> Str("ada@school.example"), school |-> Str("Elm"),
         password |-> Str(password), secret_questions |-> SecretQuestionsBody("Rex")])

Image(url) == Obj([title |-> Str("title"), url |-> Str(url), alt_text |-> Str("alt")])

ObservationDataNumber(description, quantity) ==
    Obj([description |-> Str(description), quantity |-> Num(quantity)])

ProjectBody(teacherId, mustBeUnique, number, url) ==
    Obj([teacher_id |-> Digits(teacherId), name |-> Str("Birds"),
         data_number |-> Obj([name |-> Str("birds seen"),
                              must_be_unique |-> Bool(mustBeUnique),
                              number |-> Num(number)]),
         description_image |-> Image(url), description_text |-> Str("Count the birds")])

ObservationBody(description, quantity, url) ==
    Obj([date |-> Str("2020-03-01"), data_image |-> Image(url),
         data_number |-> ObservationDataNumber(description, quantity),
         data_description |-> Str("seen at the feeder")])

\* The ways a client can write the id n in a URL or a body: "7" and "07".
IdStrings(n) == {IdString(n), Padded(n)}

(***************************************************************************)
(* Spec: one teacher keeps projects and observations, every request signed *)
(* with the teacher's own credentials, no call fails.                      *)
(***************************************************************************)
Owner == Basic(IdString(1), "Relativity1")

NextTeacher ==
    /\ nextId[TEACHER] = 0
    /\ Post(TeacherBody("Relativity1"), TEACHER, NoHeader, NoAncestor, "none")

NextUpload == Upload("img1", Owner, "none")

NextProject ==
    \E mustBeUnique \in BOOLEAN :
        Post(ProjectBody(IdString(1), mustBeUnique, 0, "img1"), PROJECT, Owner,
             NoAncestor, "none")

\* project.data_number.number of a stored project.
NumberIn(table, p) == Prop(Prop(table[p], "data_number"), "number").num
NumberOf(p) == NumberIn(projects, p)

NextPostObservation ==
    \E p \in 1..MaxProjects, d \in Descriptions, q \in Quantities :
        /\ projects[p] # NoEnt
        /\ NumberOf(p) < MaxNumber
        /\ Post(ObservationBody(d, q, "img1"), OBSERVATION, Owner,
                Ancestor(IdString(p)), "none")

\* The client addresses an observation that exists, by either form of its id.
NextUpdateObservation ==
    \E o \in 1..MaxObservations, d \in Descriptions, q \in Quantities :
        /\ observations[o] # NoEnt
        /\ NumberOf(observations[o].parent) < MaxNumber
        /\ \E id \in IdStrings(o) :
               Update(Obj([data_number |-> ObservationDataNumber(d, q)]), OBSERVATION, id,
                      Owner, Ancestor(IdString(observations[o].parent)), "none")

NextDeleteObservation ==
    \E o \in 1..MaxObservations :
        /\ observations[o] # NoEnt
        /\ \E id \in IdStrings(o) :
               Remove(OBSERVATION, id, Owner, Ancestor(IdString(observations[o].parent)),
                      "none")

NextDeleteProject ==
    \E p \in 1..MaxProjects :
        /\ projects[p] # NoEnt
        /\ Remove(PROJECT, IdString(p), Owner, NoAncestor, "none")

Next ==
    \/ NextTeacher
    \/ NextUpload
    \/ NextProject
    \/ NextPostObservation
    \/ NextUpdateObservation
    \/ NextDeleteObservation
    \/ NextDeleteProject

Spec == Init /\ [][Next]_vars

(***************************************************************************)
(* The derived counter under Spec.                                         *)
(***************************************************************************)
MustBeUnique(p) == Prop(Prop(projects[p], "data_number"), "must_be_unique") = Bool(TRUE)

\* The observations that exist under project p.
Live(p) == ObservationsOf(store, p)

DescriptionIn(table, o) == Prop(Prop(table[o].data, "data_number"), "description")
DescriptionOf(o) == DescriptionIn(observations, o)
QuantityOf(o) == Prop(Prop(observations[o].data, "data_number"), "quantity").num

RECURSIVE SumOfQuantities(_)
SumOfQuantities(S) ==
    IF S = {} THEN 0
    ELSE LET o == CHOOSE x \in S : TRUE
         IN  QuantityOf(o) + SumOfQuantities(S \ {o})

\* C1: a project with must_be_unique = false, created with number 0, has after
\* every sequence of observation creates, updates and deletes a number equal
\* to the sum of the quantities of the observations that exist under it.
C1_NumberIsSumOfQuantities ==
    \A p \in 1..MaxProjects :
        projects[p] # NoEnt /\ ~MustBeUnique(p) =>
            NumberOf(p) = SumOfQuantities(Live(p))

\* An update has just succeeded in a project in sum mode, after a create and a
\* delete: one observation is left and the number is positive.
C1_Witness ==
    /\ last.op = "update" /\ last.kind = OBSERVATION /\ last.status = 200
    /\ nextId[OBSERVATION] = 2
    /\ observations[1] = NoEnt
    /\ \E p \in 1..MaxProjects :
           /\ projects[p] # NoEnt /\ ~MustBeUnique(p)
           /\ Live(p) = {2}
           /\ NumberOf(p) = 2

\* C2: a project with must_be_unique = true, created with number 0, has a
\* number equal to the count of distinct descriptions among the observations
\* that exist under it.
C2_NumberIsCountOfDescriptions ==
    \A p \in 1..MaxProjects :
        projects[p] # NoEnt /\ MustBeUnique(p) =>
            NumberOf(p) = Cardinality({DescriptionOf(o) : o \in Live(p)})

\* C3: in a unique project a successful create changes number by +1 exactly
\* when no other existing observation has the new description, else by 0; a
\* successful delete changes it by -1 exactly when no other existing
\* observation holds the deleted description, else by 0.
C3_Step ==
    \A o \in 1..MaxObservations :
        /\ observations[o] = NoEnt /\ observations'[o] # NoEnt =>
             LET p == observations'[o].parent
             IN  MustBeUnique(p) =>
                   NumberIn(projects', p) - NumberOf(p) =
                     IF DescriptionIn(observations', o) \in {DescriptionOf(x) : x \in Live(p)}
                     THEN 0 ELSE 1
        /\ observations[o] # NoEnt /\ observations'[o] = NoEnt =>
             LET p == observations[o].parent
             IN  projects'[p] # NoEnt /\ MustBeUnique(p) =>
                   NumberIn(projects', p) - NumberOf(p) =
                     IF DescriptionOf(o) \in {DescriptionOf(x) : x \in Live(p) \ {o}}
                     THEN 0 ELSE -1

C3_UniqueDelta == [][C3_Step]_vars

(***************************************************************************)
(* SpecOwner: two teachers, and requests signed by either of them with     *)
(* either password, for projects and observations of either; image URLs    *)
(* that the bucket serves, does not serve, or that are malformed.          *)
(***************************************************************************)
PasswordOf(teacher) == IF teacher = 1 THEN "Relativity1" ELSE "Manhattan01"

\* Well-formed Basic headers: a teacher's id with the teacher's password, or
\* with the other teacher's.
Headers ==
    {Basic(IdString(a), PasswordOf(a)) : a \in 1..MaxTeachers}
        \cup {Basic(IdString(1), PasswordOf(2))}

\* URLs that parse but that the bucket does not serve, and malformed ones.
MissingUrls == {"img2"}
PostUrls == {"img1"} \cup MissingUrls
PatchUrls == MissingUrls \cup MalformedUrls

\* Patches of a teacher: another name, an uploaded photo.
TeacherPatches == {Obj([name |-> Str("Bea")]), Obj([profile_photo |-> Str("img1")])}

OwnTeacher ==
    /\ nextId[TEACHER] < MaxTeachers
    /\ Post(TeacherBody(PasswordOf(nextId[TEACHER] + 1)), TEACHER, NoHeader, NoAncestor,
            "none")

OwnUpload ==
    /\ teachers[1] # NoEnt
    /\ Upload("img1", Basic(IdString(1), PasswordOf(1)), "none")

OwnProject ==
    \E b \in 1..MaxTeachers, h \in Headers, url \in PostUrls :
        /\ nextId[PROJECT] < OwnProjects
        /\ teachers[b] # NoEnt
        /\ Post(ProjectBody(IdString(b), FALSE, 0, url), PROJECT, h, NoAncestor, "none")

OwnPostObservation ==
    \E p \in 1..MaxProjects, h \in Headers, url \in PostUrls :
        /\ nextId[OBSERVATION] < OwnObservations
        /\ projects[p] # NoEnt
        /\ Post(ObservationBody("Robin", 1, url), OBSERVATION, h, Ancestor(IdString(p)),
                "none")

\* A patch of the text the entity already has, or of its image.
ProjectPatches ==
    {Obj([description_text |-> Str("Count the birds")])}
        \cup {Obj([description_image |-> Image(url)]) : url \in PatchUrls}

ObservationPatches ==
    {Obj([data_description |-> Str("seen at the feeder")])}
        \cup {Obj([data_image |-> Image(url)]) : url \in PatchUrls}

OwnUpdateProject ==
    \E p \in 1..MaxProjects, h \in Headers, patch \in ProjectPatches :
        /\ projects[p] # NoEnt
        /\ Update(patch, PROJECT, IdString(p), h, NoAncestor, "none")

OwnUpdateObservation ==
    \E o \in 1..MaxObservations, h \in Headers, patch \in ObservationPatches :
        /\ observations[o] # NoEnt
        /\ Update(patch, OBSERVATION, IdString(o), h,
                  Ancestor(IdString(observations[o].parent)), "none")

OwnDeleteProject ==
    \E p \in 1..MaxProjects, h \in Headers :
        /\ projects[p] # NoEnt
        /\ Remove(PROJECT, IdString(p), h, NoAncestor, "none")

OwnDeleteObservation ==
    \E o \in 1..MaxObservations, h \in Headers :
        /\ observations[o] # NoEnt
        /\ Remove(OBSERVATION, IdString(o), h,
                  Ancestor(IdString(observations[o].parent)), "none")

\* Reads, with each header and with none.
OwnGetTeacher ==
    \E b \in 1..MaxTeachers, h \in Headers \cup {NoHeader} :
        /\ teachers[b] # NoEnt
        /\ Get(TEACHER, IdString(b), h, NoAncestor, "none")

OwnGetTeachers ==
    /\ teachers[1] # NoEnt
    /\ GetAll(TEACHER, NoAncestor, Null, "none")

OwnUpdateTeacher ==
    \E patch \in TeacherPatches :
        /\ teachers[1] # NoEnt
        /\ Update(patch, TEACHER, IdString(1), Basic(IdString(1), PasswordOf(1)),
                  NoAncestor, "none")

OwnGetProject ==
    \E p \in 1..MaxProjects, h \in Headers \cup {NoHeader} :
        /\ projects[p] # NoEnt
        /\ Get(PROJECT, IdString(p), h, NoAncestor, "none")

OwnGetObservation ==
    \E o \in 1..MaxObservations, h \in Headers \cup {NoHeader} :
        /\ observations[o] # NoEnt
        /\ Get(OBSERVATION, IdString(o), h, Ancestor(IdString(observations[o].parent)),
               "none")

NextOwner ==
    \/ OwnTeacher
    \/ OwnUpload
    \/ OwnProject
    \/ OwnPostObservation
    \/ OwnUpdateProject
    \/ OwnUpdateObservation
    \/ OwnDeleteProject
    \/ OwnDeleteObservation
    \/ OwnGetTeacher
    \/ OwnGetTeachers
    \/ OwnUpdateTeacher
    \/ OwnGetProject
    \/ OwnGetObservation

SpecOwner == Init /\ [][NextOwner]_vars

(***************************************************************************)
(* Ownership and image validation under SpecOwner.                         *)
(***************************************************************************)
\* The handler refused with this status and touched neither store nor bucket.
Refused(out, status) ==
    out.status = status /\ out.writes = <<>> /\ out.bucket = blobs

OwnedBy(p, b) == projects[p] # NoEnt /\ Prop(projects[p], "teacher_id") = Digits(IdString(b))

\* The mutating requests on what teacher b owns, signed with header h: the
\* outcomes of the creates that name image url, and of the updates and deletes.
ForeignCreates(h, b, url) ==
    {postEntity(store, blobs, ProjectBody(IdString(b), FALSE, 0, url), PROJECT, h,
                NoAncestor, now, "none")}
    \cup {postEntity(store, blobs, ObservationBody("Robin", 1, url), OBSERVATION, h,
                     Ancestor(IdString(p)), now, "none") :
            p \in {q \in 1..MaxProjects : OwnedBy(q, b)}}

ForeignChanges(h, b) ==
    LET owned == {q \in 1..MaxProjects : OwnedBy(q, b)}
        under == {o \in 1..MaxObservations :
                    observations[o] # NoEnt /\ observations[o].parent \in owned}
    IN  {updateEntity(store, blobs, patch, PROJECT, IdString(p), h, NoAncestor, now, "none") :
            p \in owned, patch \in ProjectPatches}
        \cup {deleteEntity(store, blobs, PROJECT, IdString(p), h, NoAncestor, now, "none") :
                p \in owned}
        \cup {updateEntity(store, blobs, patch, OBSERVATION, IdString(o), h,
                           Ancestor(IdString(observations[o].parent)), now, "none") :
                o \in under, patch \in ObservationPatches}
        \cup {deleteEntity(store, blobs, OBSERVATION, IdString(o), h,
                           Ancestor(IdString(observations[o].parent)), now, "none") :
                o \in under}

\* Header h carries the id of a teacher other than b.
Foreign(h, b) == h.parts[1] # IdString(b)

\* C5 as stated: every schema-valid mutating request on what teacher B owns
\* that carries a well-formed Basic header with id A, A # B, is answered 403
\* whatever the secret, and leaves the store unchanged.
C5_ForeignAlwaysForbidden ==
    \A h \in Headers, b \in 1..MaxTeachers :
        teachers[b] # NoEnt /\ Foreign(h, b) =>
            /\ \A url \in PostUrls : \A out \in ForeignCreates(h, b, url) : Refused(out, 403)
            /\ \A out \in ForeignChanges(h, b) : Refused(out, 403)

\* C5, amended: the same, but for a create whose image URL the bucket does not
\* serve: that create is answered 400 before the header is looked at.  In
\* either case the store is unchanged and the answer is never 401.
C5_ForeignForbiddenAfterImageCheck ==
    \A h \in Headers, b \in 1..MaxTeachers :
        teachers[b] # NoEnt /\ Foreign(h, b) =>
            /\ \A url \in PostUrls : \A out \in ForeignCreates(h, b, url) :
                   IF url \in blobs THEN Refused(out, 403) ELSE Refused(out, 400)
            /\ \A out \in ForeignChanges(h, b) : Refused(out, 403)

\* Teacher 1, with teacher 2's password in the header, has just been refused
\* the delete of an observation under teacher 2's project, which is still there.
C5_Witness ==
    /\ last.op = "delete" /\ last.kind = OBSERVATION /\ last.status = 403
    /\ \E o \in 1..MaxObservations :
           /\ observations[o] # NoEnt
           /\ OwnedBy(observations[o].parent, 2)
           /\ "img1" \in blobs

\* What the patch of an image to url asks of each kind.
ImagePatch(kind, url) ==
    CASE kind = PROJECT -> Obj([description_image |-> Image(url)])
      [] kind = OBSERVATION -> Obj([data_image |-> Image(url)])
      [] kind = TEACHER -> Obj([profile_photo |-> Str(url)])

\* The entities that exist, as [kind, id, ancestor, owner].
Entities ==
    {[kind |-> TEACHER, id |-> b, ancestor |-> NoAncestor, owner |-> Digits(IdString(b))] :
        b \in {x \in 1..MaxTeachers : teachers[x] # NoEnt}}
    \cup {[kind |-> PROJECT, id |-> p, ancestor |-> NoAncestor,
           owner |-> Prop(projects[p], "teacher_id")] :
            p \in {x \in 1..MaxProjects : projects[x] # NoEnt}}
    \cup {[kind |-> OBSERVATION, id |-> o,
           ancestor |-> Ancestor(IdString(observations[o].parent)),
           owner |-> getTeacherOfProject(store, IdString(observations[o].parent), "none")] :
            o \in {x \in 1..MaxObservations : observations[x] # NoEnt}}

\* C8: an update by the owner whose patch names an image URL other than the
\* stored one, which the bucket does not serve or which is malformed, is
\* answered 400; nothing is written, the transaction is rolled back and no
\* blob is deleted.
C8_RejectedImageChangesNothing ==
    \A e \in Entities, h \in Headers, url \in PatchUrls :
        LET stored == getImageUrl(getEntityData(store, e.kind, IdString(e.id), e.ancestor),
                                  EntityTypes[e.kind])
            out == updateEntity(store, blobs, ImagePatch(e.kind, url), e.kind,
                                IdString(e.id), h, e.ancestor, now, "none")
        IN  /\ validateAuthHeader(store, h, e.owner, Null, FALSE, now, "none") = Valid
            /\ Str(url) # stored
            /\ (url \in MalformedUrls \/ url \notin blobs)
            => /\ out.status = 400 /\ out.content = INVALID_IMAGE_URL
               /\ out.writes = <<>>
               /\ out.tx = <<"run", "rollback">>
               /\ out.bucket = blobs

\* The owner's patch of a project's image has just been rejected; the project
\* still names img1, which the bucket still serves.
C8_Witness ==
    /\ last.op = "update" /\ last.kind = PROJECT
    /\ last.status = 400 /\ last.content = INVALID_IMAGE_URL
    /\ last.tx = <<"run", "rollback">>
    /\ projects[last.id] # NoEnt
    /\ getImageUrl(projects[last.id], EntityTypes[PROJECT]) = Str("img1")
    /\ "img1" \in blobs

(***************************************************************************)
(* SpecFail: one teacher with projects and observations, every request     *)
(* signed by the teacher, while calls on the store and the bucket may      *)
(* fail.  The teacher's id is written "1" or "01".                         *)
(***************************************************************************)
Signed(idString) == Basic(idString, "Relativity1")

FailTeacher ==
    \E fail \in {"none", "commit", "postCredential"} :
        /\ nextId[TEACHER] = 0
        /\ Post(TeacherBody("Relativity1"), TEACHER, NoHeader, NoAncestor, fail)

FailUpload ==
    \E url \in ImageUrls, fail \in {"none", "writeImageToStorage"} :
        /\ teachers[1] # NoEnt
        /\ Upload(url, Signed(IdString(1)), fail)

FailProject ==
    \E id \in IdStrings(1), fail \in {"none", "commit"} :
        /\ nextId[PROJECT] < FailProjects
        /\ teachers[1] # NoEnt
        /\ Post(ProjectBody(id, TRUE, 0, "img1"), PROJECT, Signed(id), NoAncestor, fail)

\* The header that signs for project p: the teacher_id as the project has it.
SignedFor(p) == Signed(Prop(projects[p], "teacher_id").digits)

FailPostObservation ==
    \E p \in 1..MaxProjects,
       fail \in {"none", "commit", "getOtherODNDescriptions", "saveUpdatedProject"} :
        /\ nextId[OBSERVATION] < FailObservations
        /\ projects[p] # NoEnt
        /\ Post(ObservationBody("Robin", 1, "img2"), OBSERVATION, SignedFor(p),
                Ancestor(IdString(p)), fail)

FailUpdateTeacher ==
    \E photo \in {Str("img2"), Null}, fail \in {"none", "commit", "deleteImage"} :
        /\ teachers[1] # NoEnt
        /\ Update(Obj([profile_photo |-> photo]), TEACHER, IdString(1), Signed(IdString(1)),
                  NoAncestor, fail)

FailUpdateProject ==
    \E p \in 1..MaxProjects, url \in ImageUrls, fail \in {"none", "commit", "deleteImage"} :
        /\ projects[p] # NoEnt
        /\ Update(Obj([description_image |-> Image(url)]), PROJECT, IdString(p),
                  SignedFor(p), NoAncestor, fail)

FailUpdateObservation ==
    \E o \in 1..MaxObservations, d \in Descriptions,
       fail \in {"none", "commit", "getAncestorData", "getOtherODNDescriptions",
                 "saveUpdatedProject"} :
        /\ observations[o] # NoEnt
        /\ projects[observations[o].parent] # NoEnt
        /\ Update(Obj([data_number |-> ObservationDataNumber(d, 1)]), OBSERVATION,
                  IdString(o), SignedFor(observations[o].parent),
                  Ancestor(IdString(observations[o].parent)), fail)

FailDeleteObservation ==
    \E o \in 1..MaxObservations,
       fail \in {"none", "commit", "deleteImage", "getOtherODNDescriptions",
                 "saveUpdatedProject"} :
        /\ observations[o] # NoEnt
        /\ projects[observations[o].parent] # NoEnt
        /\ Remove(OBSERVATION, IdString(o), SignedFor(observations[o].parent),
                  Ancestor(IdString(observations[o].parent)), fail)

FailDeleteProject ==
    \E p \in 1..MaxProjects,
       fail \in {"none", "commit", "deleteImage", "deleteObservationsOfProject"} :
        /\ projects[p] # NoEnt
        /\ Remove(PROJECT, IdString(p), SignedFor(p), NoAncestor, fail)

FailDeleteTeacher ==
    \E fail \in {"none", "commit", "deleteImage", "deleteObservationsOfProject",
                 "deleteProjectsOfTeacher", "deleteCredential"} :
        /\ teachers[1] # NoEnt
        /\ Remove(TEACHER, IdString(1), Signed(IdString(1)), NoAncestor, fail)

\* Reads: of a project, that exists or not; of the projects, all or those of
\* a teacher, that exists or not; of the observations under a project.
FailGet ==
    \E p \in 1..MaxProjects, fail \in {"none", "commit", "get"} :
        Get(PROJECT, IdString(p), NoHeader, NoAncestor, fail)

FailGetProjects ==
    \E teacherId \in {Null} \cup {Digits(IdString(b)) : b \in 1..MaxTeachers},
       fail \in {"none", "commit", "runQuery"} :
        GetAll(PROJECT, NoAncestor, teacherId, fail)

FailGetObservations ==
    \E p \in 1..MaxProjects, fail \in {"none", "commit", "runQuery"} :
        GetAll(OBSERVATION, Ancestor(IdString(p)), Null, fail)

NextFail ==
    \/ FailTeacher
    \/ FailUpload
    \/ FailProject
    \/ FailPostObservation
    \/ FailUpdateTeacher
    \/ FailUpdateProject
    \/ FailUpdateObservation
    \/ FailDeleteObservation
    \/ FailDeleteProject
    \/ FailDeleteTeacher
    \/ FailGet
    \/ FailGetProjects
    \/ FailGetObservations

SpecFail == Init /\ [][NextFail]_vars

(***************************************************************************)
(* Cascades and failures under SpecFail.                                   *)
(***************************************************************************)
StoreAndBlobsUnchanged == UNCHANGED <<teachers, credentials, projects, observations, blobs>>

\* The projects whose teacher_id is the id t, however it is written.
ProjectsReferring(table, t) ==
    {p \in 1..MaxProjects :
        table[p] # NoEnt /\ parseInt(Prop(table[p], "teacher_id").digits) = t}

\* The image URLs that teacher t, the projects and the observations name.
ImagesReferenced(t, theirs, under) ==
    {getImageUrl(teachers[t], EntityTypes[TEACHER]).str}
    \cup {getImageUrl(projects[p], EntityTypes[PROJECT]).str : p \in theirs}
    \cup {getImageUrl(observations[o].data, EntityTypes[OBSERVATION]).str : o \in under}

\* C4: once deleteEntity on a teacher has returned 204 there is no project
\* whose teacher_id refers to the teacher, no observation under such a
\* project, no credential of the teacher, and no image but the default one
\* that the teacher, the projects or the observations referred to.
C4_Step ==
    last'.op = "delete" /\ last'.kind = TEACHER /\ last'.status = 204 =>
        LET t == last'.id
            theirs == ProjectsReferring(projects, t)
            under == {o \in 1..MaxObservations :
                        observations[o] # NoEnt /\ observations[o].parent \in theirs}
        IN  /\ ProjectsReferring(projects', t) = {}
            /\ \A o \in under : observations'[o] = NoEnt
            /\ credentials'[t] = NoEnt
            /\ (ImagesReferenced(t, theirs, under) \ {DEFAULT_PROFILE_PHOTO}) \cap blobs' = {}

C4_CascadeComplete == [][C4_Step]_vars

\* C9: whenever postEntity, updateEntity or deleteEntity answers 4xx or 500,
\* the records of the store and the blobs of the bucket are what they were
\* before the call.
C9_Step ==
    last'.op \in {"post", "update", "delete"} /\ last'.status >= 400 =>
        StoreAndBlobsUnchanged

C9_FailureChangesNothing == [][C9_Step]_vars

\* C10: when during the delete of a project or a teacher an image delete
\* fails, or a query or delete fails inside deleteObservationsOfProject,
\* deleteProjectsOfTeacher or deleteCredential, the delete is aborted: a
\* failure is returned, the transaction is rolled back, nothing is committed.
C10_Step ==
    /\ last'.op = "delete"
    /\ \/ last'.kind = PROJECT
          /\ last'.fail \in {"deleteImage", "deleteObservationsOfProject"}
       \/ last'.kind = TEACHER
          /\ last'.fail \in {"deleteProjectsOfTeacher", "deleteCredential"}
    => /\ last'.status >= 400
       /\ last'.tx = <<"run", "rollback">>
       /\ StoreAndBlobsUnchanged

C10_CascadeFailureAborts == [][C10_Step]_vars

\* C11: in every reachable state every teacher that exists has its credential
\* and every credential has its teacher, also after a credential write that
\* failed.  (A credential is found by its ancestor teacher, so a teacher has
\* at most one.)
C11_TeacherHasOneCredential ==
    \A b \in 1..MaxTeachers : teachers[b] # NoEnt <=> credentials[b] # NoEnt

(***************************************************************************)
(* SpecAuth: one teacher forgets the password: reset challenges, resets    *)
(* that present a code received in a challenge, and the clock.             *)
(***************************************************************************)
Answers == {"Rex", "Max"}
ResetBodies == {CredentialBody(password, answer) : password \in Passwords, answer \in Answers}

\* The codes the challenges have sent so far.
IssuedCodes == {uuidV4(k) : k \in 1..nextCode}

\* The reset code on file for teacher b, decrypted.
StoredIn(table, b) == decryptResetCode(table[b].reset_code)
StoredResetCode(b) == StoredIn(credentials, b)

AuthTeacher ==
    /\ nextId[TEACHER] = 0
    /\ Post(TeacherBody("Relativity1"), TEACHER, NoHeader, NoAncestor, "none")

AuthChallenge ==
    /\ teachers[1] # NoEnt
    /\ Challenge(IdString(1), "none")

AuthReset ==
    \E body \in ResetBodies, code \in IssuedCodes \cup {""} :
        /\ teachers[1] # NoEnt
        /\ ResetPassword(body, IdString(1), Basic(IdString(1), code), "none")

AuthTick == \E t \in Instants : Tick(t)

NextAuth ==
    \/ AuthTeacher
    \/ AuthChallenge
    \/ AuthReset
    \/ AuthTick

SpecAuth == Init /\ [][NextAuth]_vars

\* The answers to the resets of teacher b that present code, on the store as
\* it is at time t: one per request body.
ResetAnswers(db, b, code, t) ==
    {resetUnknownPassword(db, blobs, body, IdString(b), Basic(IdString(b), code), t, "none") :
        body \in ResetBodies}

\* C6: a successful resetUnknownPassword (204) clears the stored reset code,
\* and from then on every reset for the teacher that presents a code that is
\* no longer on file is answered 401 and writes nothing, whatever the time.
C6_Step ==
    /\ last'.op = "reset" /\ last'.status = 204 =>
         /\ credentials'[last'.id].reset_code = encryptResetCode(emptyResetCode)
         /\ StoredResetCode(last'.id).code \in IssuedCodes
         /\ \A out \in ResetAnswers(store', last'.id, StoredResetCode(last'.id).code, now') :
                out.status = 401 /\ out.writes = <<>>
    /\ \A b \in 1..MaxTeachers, k \in 1..nextCode' :
         /\ teachers'[b] # NoEnt /\ credentials'[b] # NoEnt
         /\ StoredIn(credentials', b).code # uuidV4(k)
         => \A out \in ResetAnswers(store', b, uuidV4(k), now') :
                out.status = 401 /\ out.writes = <<>>

C6_ConsumedCodeRejected == [][C6_Step]_vars

\* The one code ever sent has been used for a reset that changed the
\* password; presented again within its lifetime it has just been refused.
C6_Witness ==
    /\ last.op = "reset" /\ last.status = 401
    /\ last.content = "The reset code provided is incorrect and/or expired."
    /\ nextCode = 1
    /\ now < RESET_CODE_LIFETIME
    /\ credentials[1] # NoEnt
    /\ credentials[1].reset_code = encryptResetCode(emptyResetCode)
    /\ passwordsMatch(credentials[1], "Manhattan01")

\* C7: a challenge at time t stores a code that expires at t + 1,800,000 ms;
\* the stored code is accepted exactly while the current time is strictly
\* less than that instant, and is refused with 401 from that instant on while
\* it is still stored; the passing of time changes no credential.
C7_Step ==
    /\ last'.op = "challenge" /\ last'.status = 200 =>
         StoredIn(credentials', last'.id) =
             [code |-> last'.content, expires |-> toString10(now + 1800000)]
    /\ last'.op = "tick" => credentials' = credentials
    /\ \A b \in 1..MaxTeachers :
         teachers'[b] # NoEnt /\ credentials'[b] # NoEnt
         /\ StoredIn(credentials', b).code # ""
         => LET rc == StoredIn(credentials', b)
                live == now' < parseInt(rc.expires)
            IN  /\ resetCodeValid(credentials'[b], rc.code, now') <=> live
                /\ ~live => \A out \in ResetAnswers(store', b, rc.code, now') :
                               out.status = 401 /\ out.writes = <<>>
                /\ live => \E out \in ResetAnswers(store', b, rc.code, now') :
                               out.status = 204

C7_ExpiresAfterLifetime == [][C7_Step]_vars

\* The code sent at time 0 is still on file at 1,800,000 ms, where presenting
\* it has just been answered 401.
C7_Witness ==
    /\ last.op = "reset" /\ last.status = 401
    /\ last.content = "The reset code provided is incorrect and/or expired."
    /\ nextCode = 1
    /\ now = 1800000
    /\ credentials[1] # NoEnt
    /\ StoredResetCode(1) = [code |-> uuidV4(1), expires |-> toString10(1800000)]

\* C19: each successful challenge replaces the code on file: the code it
\* returns is a new one and is the one stored, every code sent before it is
\* from then on refused with 401 by every reset even while unexpired, and
\* the new code is accepted.
C19_Step ==
    last'.op = "challenge" /\ last'.status = 200 =>
        /\ last'.content \notin IssuedCodes
        /\ StoredIn(credentials', last'.id).code = last'.content
        /\ \A c1 \in IssuedCodes :
               \A out \in ResetAnswers(store', last'.id, c1, now') :
                   out.status = 401 /\ out.writes = <<>>
        /\ \E out \in ResetAnswers(store', last'.id, last'.content, now') :
               out.status = 204

C19_ChallengeReplacesCode == [][C19_Step]_vars

\* The second of two challenges in a row has just returned its code within
\* the lifetime of the first; no reset has changed the password in between.
C19_Witness ==
    /\ last.op = "challenge" /\ last.status = 200
    /\ nextCode = 2
    /\ last.content = uuidV4(2)
    /\ now < RESET_CODE_LIFETIME
    /\ StoredResetCode(1).code = uuidV4(2)
    /\ passwordsMatch(credentials[1], "Relativity1")

\* The password on file for teacher b, decrypted.
PasswordIn(table, b) == decryptString(table[b].password)

\* The header's password is accepted for teacher b on the credentials table.
Authenticates(table, b, password) ==
    validateAuthHeader([store EXCEPT !.credentials = table], Basic(IdString(b), password),
                       Digits(IdString(b)), Null, FALSE, now, "none")

\* The reset code on file for teacher b is one a challenge sent and has not
\* expired.
ActiveCode(b) ==
    /\ teachers[b] # NoEnt /\ credentials[b] # NoEnt
    /\ StoredResetCode(b).code # ""
    /\ isUnexpired(StoredResetCode(b), now)

\* C20, the answer: with the active, unexpired code in the header, the
\* questions and answers on file in the body, and a valid new password that
\* is not the current one, resetUnknownPassword answers 204; with the
\* committed credential the new password authenticates, the old one is
\* answered 401, and the secret questions are what they were.
C20_Accepted ==
    \A b \in 1..MaxTeachers, newPassword \in Passwords :
        ActiveCode(b) /\ newPassword # PasswordIn(credentials, b) =>
            LET out == resetUnknownPassword(store, blobs, CredentialBody(newPassword, "Rex"),
                           IdString(b), Basic(IdString(b), StoredResetCode(b).code),
                           now, "none")
                after == applyWrites(store, out.writes).credentials
            IN  /\ out.status = 204
                /\ secretQuestionsMatch(credentials[b], SecretQuestionsBody("Rex"))
                /\ Authenticates(after, b, newPassword) = Valid
                /\ Authenticates(after, b, PasswordIn(credentials, b)).status = 401
                /\ decryptSecretQuestions(after[b].secret_questions)
                     = decryptSecretQuestions(credentials[b].secret_questions)

\* C20, the step: a reset answered 204 was signed with a code that was
\* active, and leaves a password on file that is not the old one, the
\* secret questions as they were, and the old password refused with 401.
C20_Step ==
    last'.op = "reset" /\ last'.status = 204 =>
        /\ ActiveCode(last'.id)
        /\ PasswordIn(credentials', last'.id) \in Passwords \ {PasswordIn(credentials, last'.id)}
        /\ decryptSecretQuestions(credentials'[last'.id].secret_questions)
             = decryptSecretQuestions(credentials[last'.id].secret_questions)

C20_ResetSetsPassword == []C20_Accepted /\ [][C20_Step]_vars

\* A reset has just been answered 204: "Manhattan01" is now the password on
\* file, "Relativity1" no longer authenticates, the answers are still "Rex".
C20_Witness ==
    /\ last.op = "reset" /\ last.status = 204
    /\ Authenticates(credentials, 1, "Manhattan01") = Valid
    /\ Authenticates(credentials, 1, "Relativity1").status = 401
    /\ secretQuestionsMatch(credentials[1], SecretQuestionsBody("Rex"))

(***************************************************************************)
(* SpecCreate: one teacher; projects are created with any number a client  *)
(* may send, for a teacher that exists or not; observations are created    *)
(* under projects that exist or not, with an uploaded image or the default *)
(* photo; projects are patched field by field.  Requests are signed by the *)
(* teacher.  No call fails.                                                *)
(***************************************************************************)
\* The images a create may name: the uploaded one and the default photo.
CreateUrls == {"img1", DEFAULT_PROFILE_PHOTO}

\* The numbers a client sends in data_number.number of a new project.
ClientNumbers == {0, 1}

CreateTeacher ==
    /\ nextId[TEACHER] = 0
    /\ Post(TeacherBody("Relativity1"), TEACHER, NoHeader, NoAncestor, "none")

CreateUpload ==
    /\ teachers[1] # NoEnt
    /\ Upload("img1", Owner, "none")

CreateProject ==
    \E b \in 1..MaxTeachers, mustBeUnique \in BOOLEAN, number \in ClientNumbers :
        Post(ProjectBody(IdString(b), mustBeUnique, number, "img1"), PROJECT, Owner,
             NoAncestor, "none")

CreateObservation ==
    \E p \in 1..MaxProjects, url \in CreateUrls :
        Post(ObservationBody("Robin", 1, url), OBSERVATION, Owner, Ancestor(IdString(p)),
             "none")

\* Patches of a project: of a field a client may change (to the value it
\* has), and patches that name teacher_id or data_number, alone or with it.
DataNumberPatches ==
    {Obj([name |-> Str("trees seen"), must_be_unique |-> Bool(u), number |-> Num(3)]) :
        u \in BOOLEAN}

ServerOwnedPatches ==
    {Obj([teacher_id |-> Digits(IdString(2))]),
     Obj([teacher_id |-> Digits(IdString(2)), name |-> Str("Birds")])}
    \cup {Obj([data_number |-> dn]) : dn \in DataNumberPatches}
    \cup {Obj([data_number |-> dn, description_text |-> Str("Count the birds")]) :
            dn \in DataNumberPatches}

CreatePatches == {Obj([name |-> Str("Birds")])} \cup ServerOwnedPatches

CreateUpdateProject ==
    \E p \in 1..MaxProjects, patch \in CreatePatches :
        /\ projects[p] # NoEnt
        /\ Update(patch, PROJECT, IdString(p), Owner, NoAncestor, "none")

CreateUpdateObservation ==
    \E o \in 1..MaxObservations, q \in Quantities :
        /\ observations[o] # NoEnt
        /\ Update(Obj([data_number |-> ObservationDataNumber("Robin", q)]), OBSERVATION,
                  IdString(o), Owner, Ancestor(IdString(observations[o].parent)), "none")

CreateDeleteObservation ==
    \E o \in 1..MaxObservations :
        /\ observations[o] # NoEnt
        /\ Remove(OBSERVATION, IdString(o), Owner,
                  Ancestor(IdString(observations[o].parent)), "none")

CreateDeleteProject ==
    \E p \in 1..MaxProjects :
        /\ projects[p] # NoEnt
        /\ Remove(PROJECT, IdString(p), Owner, NoAncestor, "none")

NextCreate ==
    \/ CreateTeacher
    \/ CreateUpload
    \/ CreateProject
    \/ CreateObservation
    \/ CreateUpdateProject
    \/ CreateUpdateObservation
    \/ CreateDeleteObservation
    \/ CreateDeleteProject

SpecCreate == Init /\ [][NextCreate]_vars

(***************************************************************************)
(* Creation, the default photo and the server-owned fields of a project    *)
(* under SpecCreate.                                                       *)
(***************************************************************************)
\* C12: no sequence of operations deletes the blob of the default profile
\* photo, whichever entity's image field names it.
C12_DefaultPhotoKept == DEFAULT_PROFILE_PHOTO \in blobs

\* C13: in every reachable state, the one right after its creation with a
\* number the client sent included, a project's number is the sum of its
\* observations' quantities when must_be_unique is false and the count of
\* their distinct descriptions when it is true.
C13_NumberDerivedFromCreation ==
    \A p \in 1..MaxProjects :
        projects[p] # NoEnt =>
            NumberOf(p) = IF MustBeUnique(p)
                          THEN Cardinality({DescriptionOf(o) : o \in Live(p)})
                          ELSE SumOfQuantities(Live(p))

\* The headers a request of these claims may carry.
CreateHeaders == {Owner, NoHeader, Basic(IdString(2), "Relativity1")}

\* The step is a successful create, update or delete of an observation
\* under project p.
ObservationStepUnder(p) ==
    /\ last'.kind = OBSERVATION
    /\ \/ /\ last'.op = "post" /\ last'.status = 201
          /\ nextId'[OBSERVATION] = nextId[OBSERVATION] + 1
          /\ observations'[nextId'[OBSERVATION]].parent = p
       \/ /\ last'.op = "update" /\ last'.status = 200
          /\ observations[last'.id].parent = p
       \/ /\ last'.op = "delete" /\ last'.status = 204
          /\ observations[last'.id].parent = p

\* C14: while a project exists no request changes its teacher_id,
\* data_number.name or data_number.must_be_unique; its number changes only in
\* a successful create, update or delete of an observation under it; and a
\* patch of the project that names teacher_id or data_number is answered 400
\* and writes nothing, whatever the header.
C14_Step ==
    \A p \in 1..MaxProjects :
        projects[p] # NoEnt /\ projects'[p] # NoEnt =>
            /\ Prop(projects'[p], "teacher_id") = Prop(projects[p], "teacher_id")
            /\ Prop(Prop(projects'[p], "data_number"), "name")
                 = Prop(Prop(projects[p], "data_number"), "name")
            /\ Prop(Prop(projects'[p], "data_number"), "must_be_unique")
                 = Prop(Prop(projects[p], "data_number"), "must_be_unique")
            /\ NumberIn(projects', p) # NumberOf(p) => ObservationStepUnder(p)

C14_Rejected ==
    \A p \in 1..MaxProjects :
        projects[p] # NoEnt =>
            \A patch \in ServerOwnedPatches, h \in CreateHeaders :
                LET out == updateEntity(store, blobs, patch, PROJECT, IdString(p), h,
                                        NoAncestor, now, "none")
                IN  /\ Refused(out, 400)
                    /\ out.content = INVALID_UPDATE

C14_ServerOwnedFields == []C14_Rejected /\ [][C14_Step]_vars

\* A patch of project 1 that names a server-owned field has just been
\* answered 400; the project, created with number 1, has an observation and
\* its number is 2.
C14_Witness ==
    /\ last.op = "update" /\ last.kind = PROJECT
    /\ last.status = 400 /\ last.content = INVALID_UPDATE
    /\ projects[last.id] # NoEnt
    /\ ~MustBeUnique(last.id)
    /\ Live(last.id) # {}
    /\ NumberOf(last.id) = 2

\* The images a create may name, with one the bucket never serves.
AnyUrls == CreateUrls \cup MissingUrls

\* C15: a create of an observation under a project that does not exist in
\* the transaction's snapshot is answered 404, the transaction is rolled
\* back and nothing is written; an observation is written only in a
\* transaction that read its project and commits.  (The transaction starts
\* once the body and its image URL have passed; before that the answer is
\* 400 and nothing is written either.)
C15_MissingAncestorNotFound ==
    \A p \in 1..MaxProjects : \A id \in IdStrings(p), h \in CreateHeaders, url \in AnyUrls :
        LET out == postEntity(store, blobs, ObservationBody("Robin", 1, url), OBSERVATION, h,
                              Ancestor(id), now, "none")
        IN  /\ projects[p] = NoEnt =>
                /\ out.writes = <<>> /\ out.bucket = blobs
                /\ validateImageUrl(blobs, Str(url)) =>
                     /\ out.status = 404 /\ out.content = ANCESTOR_NOT_FOUND
                     /\ out.tx = <<"run", "rollback">>
                /\ ~validateImageUrl(blobs, Str(url)) => out.status = 400 /\ out.tx = <<>>
            /\ out.writes # <<>> =>
                /\ getAncestorData(store, id, "none") # NoEnt
                /\ out.status = 201 /\ out.tx = <<"run", "commit">>
                /\ Head(out.writes) = Save(OBSERVATION, 0, p, ObservationBody("Robin", 1, url))

\* A create under project 1, which was deleted, has just been answered 404;
\* there is no observation.
C15_Witness ==
    /\ last.op = "post" /\ last.kind = OBSERVATION
    /\ last.status = 404 /\ last.content = ANCESTOR_NOT_FOUND
    /\ last.tx = <<"run", "rollback">>
    /\ nextId[PROJECT] = 1 /\ projects[1] = NoEnt
    /\ \A o \in 1..MaxObservations : observations[o] = NoEnt

\* C16: a create of a project whose teacher_id names no existing teacher is
\* answered 404 and no project is written; a project is written only in a
\* transaction in which teacherExists was true.
C16_MissingTeacherNotFound ==
    \A b \in 1..MaxTeachers : \A id \in IdStrings(b), h \in CreateHeaders, url \in AnyUrls,
                                 mustBeUnique \in BOOLEAN :
        LET out == postEntity(store, blobs, ProjectBody(id, mustBeUnique, 1, url),
                              PROJECT, h, NoAncestor, now, "none")
        IN  /\ teachers[b] = NoEnt =>
                /\ out.writes = <<>> /\ out.bucket = blobs
                /\ validateImageUrl(blobs, Str(url)) =>
                     out.status = 404 /\ out.content = TEACHER_NOT_FOUND
            /\ out.writes # <<>> =>
                /\ teacherExists(store, id, "none")
                /\ out.status = 201 /\ out.tx = <<"run", "commit">>

\* Teacher 1 exists and serves img1; a create of a project for another
\* teacher, who does not exist, has just been answered 404, and there is no
\* project.
C16_Witness ==
    /\ last.op = "post" /\ last.kind = PROJECT
    /\ last.status = 404 /\ last.content = TEACHER_NOT_FOUND
    /\ teachers[1] # NoEnt /\ teachers[2] = NoEnt
    /\ "img1" \in blobs
    /\ nextId[PROJECT] = 0

(***************************************************************************)
(* SpecValidate: validateProperties applied to request bodies, against the *)
(* create and update properties of a credential and the update properties  *)
(* of a project.                                                           *)
(***************************************************************************)
\* entityType.createProperties for POST, entityType.updateProperties otherwise.
PropertySet(kind, method) ==
    IF method = POST THEN EntityTypes[kind].createProperties
    ELSE EntityTypes[kind].updateProperties

\* validateProperties is called on entityData; the call and its result are kept.
Validate(entityData, kind, method) ==
    /\ last' = [op |-> "validateProperties", kind |-> kind, method |-> method,
                data |-> entityData,
                valid |-> validateProperties(entityData, PropertySet(kind, method))]
    /\ UNCHANGED <<teachers, credentials, projects, observations, blobs, nextId, now, nextCode,
                   transactions>>

\* The values a body may give to each key: valid ones and invalid ones.
TextValues == {Str("Birds"), Str(""), Num(7)}
CredentialValues ==
    [password |-> {Str("Relativity1"), Str("short"), Num(7)},
     secret_questions |-> {SecretQuestionsBody("Rex"), SecretQuestionsBody("Elm Street"), Null},
     nickname |-> {Str("Ada")}]
ProjectValues ==
    [name |-> TextValues,
     description_text |-> TextValues,
     description_image |-> {Image("img1"), Null},
     teacher_id |-> {Digits(IdString(1))}]

\* The objects that give to some of the keys one of the values of the key.
Bodies(values) ==
    LET all == UNION {values[k] : k \in DOMAIN values}
    IN  UNION {{Obj(f) : f \in {g \in [S -> all] : \A k \in S : g[k] \in values[k]}} :
                 S \in SUBSET DOMAIN values}

ValidateCredential ==
    \E entityData \in Bodies(CredentialValues), method \in {POST, PATCH} :
        Validate(entityData, CREDENTIAL, method)

ValidateProject ==
    \E entityData \in Bodies(ProjectValues) : Validate(entityData, PROJECT, PATCH)

NextValidate ==
    \/ ValidateCredential
    \/ ValidateProject

SpecValidate == Init /\ [][NextValidate]_vars

\* The four ways a body fails a property set.
RequiredAbsent(data, set) ==
    \E i \in 1..Len(set) : set[i].required /\ set[i].name \notin Keys(data)
PresentInvalid(data, set) ==
    \E i \in 1..Len(set) :
        set[i].name \in Keys(data) /\ ~Validator(set[i].validator, data.obj[set[i].name])
NonePresent(data, set) ==
    Keys(data) \cap {set[i].name : i \in 1..Len(set)} = {}
UnknownKey(data, set) ==
    \E key \in Keys(data) : key \notin {set[i].name : i \in 1..Len(set)}

\* C17: validateProperties(data, propertySet) is false exactly when a required
\* property is absent from data, or a property present in data fails its
\* validator, or data holds none of the properties of the set, or data holds
\* a key that is not in the set; in every other case it is true.
C17_ValidatePropertiesExact ==
    last.op = "validateProperties" =>
        LET set == PropertySet(last.kind, last.method)
        IN  last.valid = FALSE <=>
                \/ RequiredAbsent(last.data, set)
                \/ PresentInvalid(last.data, set)
                \/ NonePresent(last.data, set)
                \/ UnknownKey(last.data, set)

\* A patch of a project with a valid name and a teacher_id has just been
\* found invalid: the unknown key is the only reason.
C17_Witness ==
    /\ last.op = "validateProperties" /\ last.kind = PROJECT
    /\ last.valid = FALSE
    /\ Keys(last.data) = {"name", "teacher_id"}
    /\ UnknownKey(last.data, PropertySet(PROJECT, PATCH))
    /\ ~RequiredAbsent(last.data, PropertySet(PROJECT, PATCH))
    /\ ~PresentInvalid(last.data, PropertySet(PROJECT, PATCH))
    /\ ~NonePresent(last.data, PropertySet(PROJECT, PATCH))

(***************************************************************************)
(* SpecHeader: one teacher, and requests that carry every shape of         *)
(* Authorization header: uploads (any teacher may sign), patches of the    *)
(* teacher and of the credential (the owner must sign), resets (a reset    *)
(* code signs), while challenges issue codes and time passes.              *)
(***************************************************************************)
\* No header; a leading space; no space; another scheme; credentials with no
\* colon and with two; the id of a teacher that does not exist; the
\* teacher's id, plain or padded, with the password, another password, or a
\* reset code that a challenge may have sent.
AuthHeaders ==
    {NoHeader,
     Header(0, "", <<>>),
     Header(-1, "", <<>>),
     Header(6, "Bearer", <<IdString(1), "Relativity1">>),
     Header(5, "Basic", <<IdString(1)>>),
     Header(5, "Basic", <<IdString(1), "Relativity1", "">>),
     Basic(IdString(2), "Relativity1"),
     Basic(IdString(1), "Manhattan01"),
     Basic(IdString(1), "Relativity1"),
     Basic(Padded(1), "Relativity1")}
    \cup {Basic(IdString(1), uuidV4(k)) : k \in 1..MaxCodes}

HeaderTeacher ==
    /\ nextId[TEACHER] = 0
    /\ Post(TeacherBody("Relativity1"), TEACHER, NoHeader, NoAncestor, "none")

HeaderChallenge ==
    /\ teachers[1] # NoEnt
    /\ Challenge(IdString(1), "none")

HeaderTick == \E t \in Instants : Tick(t)

HeaderUpload == \E h \in AuthHeaders : Upload("img1", h, "none")

\* Patches and resets that ask for what is already on file.
HeaderUpdateTeacher ==
    \E h \in AuthHeaders :
        /\ teachers[1] # NoEnt
        /\ Update(Obj([name |-> Str("Ada")]), TEACHER, IdString(1), h, NoAncestor, "none")

HeaderPatchCredential ==
    \E h \in AuthHeaders :
        /\ teachers[1] # NoEnt
        /\ PatchCredential(Obj([secret_questions |-> SecretQuestionsBody("Rex")]),
                           IdString(1), h, "none")

HeaderReset ==
    \E h \in AuthHeaders :
        /\ teachers[1] # NoEnt
        /\ ResetPassword(CredentialBody("Relativity1", "Rex"), IdString(1), h, "none")

NextHeader ==
    \/ HeaderTeacher
    \/ HeaderChallenge
    \/ HeaderTick
    \/ HeaderUpload
    \/ HeaderUpdateTeacher
    \/ HeaderPatchCredential
    \/ HeaderReset

SpecHeader == Init /\ [][NextHeader]_vars

\* The header splits into a scheme and credentials of two parts.
WellFormed(h) == h # NoHeader /\ h.spaceIndex > 0 /\ Len(h.parts) = 2

\* The credential the header is checked against: the one passed in, else the
\* one on file for the header's id.
CredentialFor(h, given) ==
    IF given # Null THEN given ELSE getRoot(credentials, parseInt(h.parts[1]))

\* The secret of the header is not the password on file or, with
\* useResetCode, not the reset code on file or that code has expired.
SecretRefused(h, given, useResetCode) ==
    LET cred == CredentialFor(h, given)
    IN  IF useResetCode
        THEN \/ h.parts[2] # decryptString(cred.reset_code.code)
             \/ parseInt(decryptString(cred.reset_code.expires)) = NaN
             \/ now >= parseInt(decryptString(cred.reset_code.expires))
        ELSE h.parts[2] # decryptString(cred.password)

\* The conditions of the claim in their order, with the status of each.
AuthConditions(h, expected, given, useResetCode) ==
    <<[holds |-> h = NoHeader, status |-> 401],
      [holds |-> h # NoHeader /\ h.spaceIndex <= 0, status |-> 400],
      [holds |-> h # NoHeader /\ h.authType # "Basic", status |-> 401],
      [holds |-> h # NoHeader /\ Len(h.parts) # 2, status |-> 400],
      [holds |-> WellFormed(h) /\ expected # Null /\ Digits(h.parts[1]) # expected,
       status |-> 403],
      [holds |-> WellFormed(h) /\ CredentialFor(h, given) = NoEnt, status |-> 404],
      [holds |-> WellFormed(h) /\ CredentialFor(h, given) # NoEnt
                 /\ SecretRefused(h, given, useResetCode),
       status |-> 401]>>

\* The status of the first condition that holds, 0 (authorized) when none does.
FirstApplicable(conditions) ==
    LET applicable == {i \in 1..Len(conditions) : conditions[i].holds}
    IN  IF applicable = {} THEN 0
        ELSE conditions[CHOOSE i \in applicable : \A j \in applicable : i <= j].status

\* C18: validateAuthHeader answers with the first applicable of: header
\* missing 401; no space or a leading space 400; scheme other than Basic 401;
\* credentials without exactly one colon 400; an expected owner that is not
\* the header's id 403; no credential on file for the header's id 404;
\* password (or reset code) mismatch or expired code 401; else it authorizes.
\* It writes nothing: an upload it refuses leaves store and bucket as they were.
C18_AuthOutcomeOrder ==
    \A h \in AuthHeaders, expected \in {Null, Digits(IdString(1)), Digits(IdString(2))},
       given \in {Null} \cup ({credentials[1]} \ {NoEnt}), useResetCode \in BOOLEAN :
        /\ validateAuthHeader(store, h, expected, given, useResetCode, now, "none").status
             = FirstApplicable(AuthConditions(h, expected, given, useResetCode))
        /\ LET out == postImage(store, blobs, "img2", h, now, "none")
           IN  IF FirstApplicable(AuthConditions(h, Null, Null, FALSE)) = 0
               THEN out.status = 201
               ELSE Refused(out, FirstApplicable(AuthConditions(h, Null, Null, FALSE)))

\* A patch of teacher 1's credential has just been answered 403: the header
\* named a teacher that has no credential on file, and 403 came first.
C18_Witness ==
    /\ last.op = "patchCredential" /\ last.status = 403
    /\ credentials[1] # NoEnt
    /\ credentials[2] = NoEnt

(***************************************************************************)
(* Reads under SpecOwner.                                                  *)
(***************************************************************************)
\* Header h carries teacher b's id and the password stored for b.
AuthenticatesAs(h, b) ==
    /\ h # NoHeader
    /\ h.parts[1] = IdString(b)
    /\ passwordsMatch(credentials[b], h.parts[2])

\* C21: getEntity on a teacher answers 200, with the teacher's record, only
\* when the header authenticates as that teacher; it answers 401 with no
\* header or a wrong password and 403 when the header's id is another
\* teacher's.  getEntity on a project or an observation answers 200 with the
\* record whatever the header, and with none.
C21_TeacherReadNeedsOwner ==
    /\ \A b \in 1..MaxTeachers, h \in Headers \cup {NoHeader} :
           LET out == getEntity(store, blobs, TEACHER, IdString(b), h, NoAncestor, now, "none")
           IN  teachers[b] # NoEnt =>
                  /\ out.status = 200 <=> AuthenticatesAs(h, b)
                  /\ out.status = 200 =>
                         out.content = With(teachers[b], "id", Digits(IdString(b)))
                  /\ h = NoHeader => out.status = 401
                  /\ h # NoHeader /\ h.parts[1] # IdString(b) => out.status = 403
                  /\ h # NoHeader /\ h.parts[1] = IdString(b) /\ ~AuthenticatesAs(h, b)
                        => out.status = 401
    /\ \A e \in Entities, h \in Headers \cup {NoHeader} :
           LET out == getEntity(store, blobs, e.kind, IdString(e.id), h, e.ancestor, now, "none")
           IN  e.kind # TEACHER =>
                  /\ out.status = 200
                  /\ out.content =
                         With(getEntityData(store, e.kind, IdString(e.id), e.ancestor),
                              "id", Digits(IdString(e.id)))

\* Teacher 2 exists and teacher 1 has just been refused teacher 2's record.
C21_Witness ==
    /\ last.op = "get" /\ last.kind = TEACHER /\ last.id = 2 /\ last.status = 403
    /\ teachers[1] # NoEnt /\ teachers[2] # NoEnt

(***************************************************************************)
(* The cascade of a project's delete under SpecFail.                       *)
(***************************************************************************)
\* The observations stored under project p.
Under(p) == {o \in 1..MaxObservations : observations[o] # NoEnt /\ observations[o].parent = p}

\* C22: once deleteEntity on a project has returned 204, no observation with
\* that project as ancestor remains in the store, and the image blob of the
\* project and of each of its former observations is no longer in the bucket.
C22_Step ==
    last'.op = "delete" /\ last'.kind = PROJECT /\ last'.status = 204 =>
        LET p == last'.id
        IN  /\ \A o \in Under(p) : observations'[o] = NoEnt
            /\ getImageUrl(projects[p], EntityTypes[PROJECT]).str \notin blobs'
            /\ \A o \in Under(p) :
                   getImageUrl(observations[o].data, EntityTypes[OBSERVATION]).str
                       \notin blobs'

C22_ProjectCascadeComplete == [][C22_Step]_vars

(***************************************************************************)
(* The image of an updated entity under SpecFail.                          *)
(***************************************************************************)
\* Patches of an entity of the kind: of its image, to each URL; of a
\* teacher's photo to null; of a text, with no image field.
UpdatePatches(kind) ==
    {ImagePatch(kind, url) : url \in ImageUrls \cup MalformedUrls \cup {DEFAULT_PROFILE_PHOTO}}
    \cup (CASE kind = TEACHER -> {Obj([profile_photo |-> Null]), Obj([name |-> Str("Ada")])}
            [] kind = PROJECT -> {Obj([description_text |-> Str("Count the birds")])}
            [] kind = OBSERVATION -> {Obj([data_description |-> Str("seen at the feeder")])})

\* C23: an update that its owner signs deletes the blob of the entity's
\* previous image exactly when the previous URL is not the default photo and
\* either the patch names another URL, which the bucket serves and which is
\* well formed, or the entity is a teacher and the patch sets profile_photo
\* to null.  A patch with no image field, or with the URL already stored,
\* leaves the bucket alone and is not answered 400, whether or not the
\* bucket still serves the stored URL.
C23_OldImageDeleted ==
    \A e \in Entities : \A patch \in UpdatePatches(e.kind), id \in IdStrings(1) :
        LET entityType == EntityTypes[e.kind]
            old == getImageUrl(getEntityData(store, e.kind, IdString(e.id), e.ancestor),
                               entityType)
            new == getImageUrl(patch, entityType)
            toNull == e.kind = TEACHER /\ patch = Obj([profile_photo |-> Null])
            passes == new # Null /\ new.str \notin MalformedUrls /\ new.str \in blobs
            out == updateEntity(store, blobs, patch, e.kind, IdString(e.id), Signed(id),
                                e.ancestor, now, "none")
        IN  /\ e.owner # Null
            /\ validateAuthHeader(store, Signed(id), e.owner, Null, FALSE, now, "none") = Valid
            => /\ IF old # Str(DEFAULT_PROFILE_PHOTO)
                     /\ (toNull \/ (new # Null /\ new # old /\ passes))
                  THEN out.bucket = blobs \ {old.str}
                  ELSE out.bucket = blobs
               /\ ~toNull /\ (new = Null \/ new = old) => out.status = 200

\* The project's image has just been changed from img1 to img2: img1 is gone
\* from the bucket.
C23_Witness ==
    /\ last.op = "update" /\ last.kind = PROJECT /\ last.status = 200
    /\ last.fail = "none"
    /\ getImageUrl(projects[last.id], EntityTypes[PROJECT]) = Str("img2")
    /\ "img1" \notin blobs /\ "img2" \in blobs

(***************************************************************************)
(* SpecRace: one teacher, one project, and two requests on the project's   *)
(* observations handled at once.  Each request's transaction reads the     *)
(* store as it was at its transaction.run(); its buffered writes reach the *)
(* store at its commit, which Datastore may accept or refuse.              *)
(***************************************************************************)
\* A faulty read: the transaction sees the writes committed after its run().
readLatest(snapshot, current) == current

\* What the reads of a transaction see: the store at its run().
readAt(snapshot, current) == snapshot

\* The requests: create an observation, change one's data_number, delete one.
RaceRequests ==
    {[op |-> "post", id |-> 0, d |-> d, q |-> 1] : d \in Descriptions}
    \cup {[op |-> "update", id |-> o, d |-> "Robin", q |-> MaxQuantity] :
             o \in 1..MaxObservations}
    \cup {[op |-> "delete", id |-> o, d |-> "", q |-> 0] : o \in 1..MaxObservations}

\* The handler of the request, on the store db and the bucket.
Handle(req, db, bucket, t, fail) ==
    CASE req.op = "post" ->
            postEntity(db, bucket, ObservationBody(req.d, req.q, "img1"), OBSERVATION, Owner,
                       Ancestor(IdString(1)), t, fail)
      [] req.op = "update" ->
            updateEntity(db, bucket,
                         Obj([data_number |-> ObservationDataNumber(req.d, req.q)]),
                         OBSERVATION, IdString(req.id), Owner, Ancestor(IdString(1)), t, fail)
      [] req.op = "delete" ->
            deleteEntity(db, bucket, OBSERVATION, IdString(req.id), Owner,
                         Ancestor(IdString(1)), t, fail)

InPhase(phase) == {s \in Slots : transactions[s].phase = phase}

\* transaction.run() of a request: nothing waits for the request in the
\* other slot, whatever it is about.  (Slot b is taken when slot a is.)
Begin(slot, req) ==
    /\ transactions[slot] = Idle
    /\ InPhase("done") = {}
    /\ slot = "b" => transactions["a"].phase = "running"
    /\ projects[1] # NoEnt
    /\ NumberIn(projects, 1) \in 0..MaxNumber
    /\ req.op = "post" =>
           nextId[OBSERVATION]
             + Cardinality({s \in InPhase("running") : transactions[s].req.op = "post"})
               < MaxObservations
    /\ req.op # "post" => observations[req.id] # NoEnt
    /\ transactions' = [transactions EXCEPT ![slot] =
                            [phase |-> "running", req |-> req, db |-> store,
                             bucket |-> blobs]]
    /\ UNCHANGED <<teachers, credentials, projects, observations, blobs, nextId, now,
                   nextCode, last>>

\* The rest of the handler, up to its response: its reads see the store of
\* its run(), its writes reach the store as it is now.  accepted: Datastore
\* accepts the commit; a refused commit throws, and the handler answers 500.
Finish(slot, accepted) ==
    /\ transactions[slot].phase = "running"
    /\ LET tx == transactions[slot]
           out == Handle(tx.req, readAt(tx.db, store), tx.bucket, now,
                         IF accepted THEN "none" ELSE "commit")
       IN  /\ Effects([out EXCEPT !.bucket = blobs \ (tx.bucket \ out.bucket)],
                      tx.req.op, OBSERVATION, tx.req.id,
                      IF accepted THEN "none" ELSE "commit")
           /\ transactions' = [transactions EXCEPT ![slot] =
                                   [phase |-> "done", req |-> tx.req, db |-> tx.db,
                                    bucket |-> tx.bucket, status |-> out.status,
                                    tx |-> out.tx,
                                    rank |-> Cardinality(InPhase("done")) + 1]]
    /\ UNCHANGED <<now, nextCode>>

\* The responses have been sent: the slots are free again.
Settle ==
    /\ InPhase("running") = {}
    /\ InPhase("done") # {}
    /\ transactions' = [s \in Slots |-> Idle]
    /\ UNCHANGED <<teachers, credentials, projects, observations, blobs, nextId, now,
                   nextCode, last>>

RaceTeacher == InPhase("idle") = Slots /\ NextTeacher

RaceUpload == InPhase("idle") = Slots /\ NextUpload

RaceProject == InPhase("idle") = Slots /\ nextId[PROJECT] = 0 /\ NextProject

RaceBegin == \E slot \in Slots, req \in RaceRequests : Begin(slot, req)

RaceFinish == \E slot \in Slots, accepted \in BOOLEAN : Finish(slot, accepted)

NextRace ==
    \/ RaceTeacher
    \/ RaceUpload
    \/ RaceProject
    \/ RaceBegin
    \/ RaceFinish
    \/ Settle

SpecRace == Init /\ [][NextRace]_vars

(***************************************************************************)
(* Two mutations of one project's observations at once, under SpecRace.    *)
(***************************************************************************)
\* The slot whose transaction ended first, second.
Ranked(rank) == CHOOSE s \in Slots : transactions[s].rank = rank

\* The writes that the request of the slot committed, as its handler
\* computes them on the store db.
Committed(slot, db, bucket) ==
    IF transactions[slot].status < 400
    THEN Handle(transactions[slot].req, db, bucket, now, "none")
    ELSE Outcome(transactions[slot].status, "", <<>>, bucket, <<>>)

\* The store after the two requests handled one after the other from the
\* store db: first's handler, then second's on what first left.
Serial(first, second, db, bucket) ==
    LET one == Committed(first, db, bucket)
        between == applyWrites(db, one.writes)
    IN  applyWrites(between, Committed(second, between, one.bucket).writes)

BothDone == InPhase("done") = Slots

\* C24: two mutations of observations of the same project whose transactions
\* both ran before either committed leave the store as the first commit's
\* writes followed by the second's, both computed from the store as it was
\* at run(): the second commit replaces the project record, and its number,
\* by the one computed without the first (which can differ from the number
\* that either serial order gives: C24_Witness).  No transaction waited for
\* the other, and each called run() at most once and commit() at most once:
\* none was retried.
C24_LostUpdate ==
    BothDone =>
        LET first == transactions[Ranked(1)]
            second == transactions[Ranked(2)]
            one == Committed(Ranked(1), first.db, first.bucket)
            two == Committed(Ranked(2), first.db, second.bucket)
            result == applyWrites(applyWrites(first.db, one.writes), two.writes)
        IN  /\ first.db = second.db
            /\ projects = result.projects
            /\ observations = result.observations
            /\ \A s \in Slots :
                   transactions[s].tx \in {<<>>, <<"run", "commit">>, <<"run", "rollback">>,
                                           <<"run", "commit", "rollback">>}

\* Both requests were answered with a success status, and the project's
\* number is not the one that either serial order of the two would have left.
C24_Witness ==
    /\ BothDone
    /\ \A s \in Slots : transactions[s].status < 400
    /\ LET base == transactions["a"].db
           bucket == transactions["a"].bucket
       IN  /\ NumberIn(projects, 1) # NumberIn(Serial("a", "b", base, bucket).projects, 1)
           /\ NumberIn(projects, 1) # NumberIn(Serial("b", "a", base, bucket).projects, 1)

(***************************************************************************)
(* Failures of the aggregate's query and save, under SpecFail.             *)
(***************************************************************************)
\* The handler's outcome for a request on an observation under project p:
\* a create, a change of observation o's data_number, a delete of o.
ObservationRequest(req, p, fail) ==
    CASE req.op = "post" ->
            postEntity(store, blobs, ObservationBody(req.d, req.q, "img2"), OBSERVATION,
                       SignedFor(p), Ancestor(IdString(p)), now, fail)
      [] req.op = "update" ->
            updateEntity(store, blobs,
                         Obj([data_number |-> ObservationDataNumber(req.d, req.q)]),
                         OBSERVATION, IdString(req.id), SignedFor(p), Ancestor(IdString(p)),
                         now, fail)
      [] req.op = "delete" ->
            deleteEntity(store, blobs, OBSERVATION, IdString(req.id), SignedFor(p),
                         Ancestor(IdString(p)), now, fail)

ObservationRequests(p) ==
    {[op |-> "post", id |-> 0, d |-> d, q |-> q] : d \in Descriptions, q \in Quantities}
    \cup {[op |-> "update", id |-> o, d |-> d, q |-> q] :
             o \in Under(p), d \in Descriptions, q \in Quantities}
    \cup {[op |-> "delete", id |-> o, d |-> "", q |-> 0] : o \in Under(p)}

\* The request reaches the query for the other descriptions.
QueriesOthers(req, p) ==
    /\ MustBeUnique(p)
    /\ req.op = "update" =>
           Prop(Prop(observations[req.id].data, "data_number"), "description") # Str(req.d)

\* The request reaches the save of the recomputed project: with no failure
\* it writes the project.
SavesProject(req, p) ==
    LET writes == ObservationRequest(req, p, "none").writes
    IN  \E i \in 1..Len(writes) : writes[i].kind = PROJECT

\* C25: when the query for the other observations' descriptions fails, or the
\* save of the recomputed project fails, during the create, update or delete
\* of an observation, the handler rolls the transaction back and answers
\* 500, and no write reaches the store: neither the observation's nor the
\* project's.
C25_AggregateFailureRollsBack ==
    \A p \in 1..MaxProjects :
        projects[p] # NoEnt =>
            \A req \in ObservationRequests(p),
               fail \in {"getOtherODNDescriptions", "saveUpdatedProject"} :
                LET out == ObservationRequest(req, p, fail)
                IN  /\ ObservationRequest(req, p, "none").status < 400
                    /\ IF fail = "saveUpdatedProject" THEN SavesProject(req, p)
                       ELSE QueriesOthers(req, p)
                    => /\ out.status = 500
                       /\ out.tx = <<"run", "rollback">>
                       /\ out.writes = <<>>

\* The save of the project failed during the delete of an observation: 500,
\* and the observation and the project's number are still there.
C25_Witness ==
    /\ last.op = "delete" /\ last.kind = OBSERVATION
    /\ last.fail = "saveUpdatedProject"
    /\ last.status = 500 /\ last.tx = <<"run", "rollback">>
    /\ observations[last.id] # NoEnt
    /\ NumberIn(projects, observations[last.id].parent) = 1

(***************************************************************************)
(* How the transaction of a request ends, under SpecFail.                  *)
(***************************************************************************)
\* C26: whenever getEntity, getEntities, postEntity, updateEntity or
\* deleteEntity has called transaction.run(), it has called commit or
\* rollback before it returns, not both unless the commit itself failed, and
\* when it returns an error status the transaction was rolled back.
C26_TransactionClosed ==
    last.op \in {"get", "getAll", "post", "update", "delete"} /\ last.tx # <<>> =>
        /\ \/ last.tx \in {<<"run", "commit">>, <<"run", "rollback">>}
           \/ last.tx = <<"run", "commit", "rollback">> /\ last.fail = "commit"
        /\ last.status >= 400 => last.tx[Len(last.tx)] = "rollback"

(***************************************************************************)
(* The project write of an observation's update, under Spec.               *)
(***************************************************************************)
\* Patches of an observation: of its data_number, or of its text only.
NumberPatches ==
    {Obj([data_number |-> ObservationDataNumber(d, q)]) : d \in Descriptions, q \in Quantities}
    \cup {Obj([data_description |-> Str("seen at the feeder")])}

\* C27: an update of an observation writes the ancestor project exactly when
\* the project's number after the update differs from the number before.  No
\* project is written when the patch has no data_number, when the new
\* data_number equals the old in quantity and description, when the project
\* is must_be_unique and the description is unchanged, or when taking the old
\* contribution out and putting the new one in gives the same number (same
\* quantity in a project that sums; in a project that counts descriptions,
\* old and new description both among the other observations' or both not).
C27_ProjectWrittenIffNumberChanges ==
    \A o \in 1..MaxObservations :
        observations[o] # NoEnt =>
            \A id \in IdStrings(o), patch \in NumberPatches :
                LET p == observations[o].parent
                    out == updateEntity(store, blobs, patch, OBSERVATION, id, Owner,
                                        Ancestor(IdString(p)), now, "none")
                    after == applyWrites(store, out.writes)
                    written == \E i \in 1..Len(out.writes) : out.writes[i].kind = PROJECT
                    old == Prop(observations[o].data, "data_number")
                    new == Prop(patch, "data_number")
                    others == {DescriptionOf(x) : x \in Live(p) \ {o}}
                    same(key) == Prop(old, key) = Prop(new, key)
                IN  /\ out.status = 200
                    /\ written <=> NumberIn(after.projects, p) # NumberOf(p)
                    /\ new = Undefined => ~written
                    /\ new # Undefined =>
                          /\ same("quantity") /\ same("description") => ~written
                          /\ MustBeUnique(p) /\ same("description") => ~written
                          /\ ~MustBeUnique(p) /\ same("quantity") => ~written
                          /\ (/\ MustBeUnique(p) /\ id = IdString(o)
                              /\ Prop(old, "description") \in others
                                    <=> Prop(new, "description") \in others)
                             => ~written

\* An observation's data_number has just been updated; it is the only one of
\* a project that counts descriptions, and the number is 1.
C27_Witness ==
    /\ last.op = "update" /\ last.kind = OBSERVATION /\ last.status = 200
    /\ observations[last.id] # NoEnt
    /\ LET p == observations[last.id].parent
       IN  /\ MustBeUnique(p)
           /\ Live(p) = {last.id}
           /\ QuantityOf(last.id) = MaxQuantity
           /\ NumberOf(p) = 1

(***************************************************************************)
(* The order of postEntity's checks, under SpecCreate.                     *)
(***************************************************************************)
\* The status and error of the first check of the list that fails, in the
\* order schema, image, ancestor, teacher, authorization; <<201, "created">>
\* when none fails.  missing: the project of an observation, or the teacher
\* of a project, does not exist; expected: the owner the header must name.
FirstFailing(kind, body, url, missing, h, expected) ==
    LET auth == validateAuthHeader(store, h, expected, Null, FALSE, now, "none")
    IN  IF ~validateProperties(body, EntityTypes[kind].createProperties)
        THEN <<400, INVALID_PROPERTIES>>
        ELSE IF url \notin blobs \/ url \in MalformedUrls
        THEN <<400, INVALID_IMAGE_URL>>
        ELSE IF missing
        THEN <<404, IF kind = OBSERVATION THEN ANCESTOR_NOT_FOUND ELSE TEACHER_NOT_FOUND>>
        ELSE IF auth # Valid THEN <<auth.status, auth.content>>
        ELSE <<201, "created">>

\* The outcome is the expected answer, and only a 201 writes.
AnsweredWith(out, expected) ==
    /\ <<out.status, out.content>> = expected
    /\ out.writes # <<>> <=> out.status = 201
    /\ out.bucket = blobs

\* C28: postEntity answers with the first failing check in the order: schema
\* (400), image URL (400), missing ancestor project (404), missing teacher
\* (404), authorization (401, 400, 403, 404); it writes only when none
\* fails.  So a request without Authorization header is answered 400 for an
\* invalid body and 404 for a missing project or teacher, and 401 only when
\* body, image and project or teacher are in order.
C28_FirstFailingCheck ==
    \A h \in CreateHeaders, url \in AnyUrls \cup MalformedUrls, valid \in BOOLEAN :
        /\ \A p \in 1..MaxProjects :
               LET full == ObservationBody("Robin", 1, url)
                   body == IF valid THEN full ELSE Without(full, {"date"})
                   missing == projects[p] = NoEnt
                   expected == IF missing THEN Null ELSE Prop(projects[p], "teacher_id")
                   out == postEntity(store, blobs, body, OBSERVATION, h,
                                     Ancestor(IdString(p)), now, "none")
               IN  /\ AnsweredWith(out, FirstFailing(OBSERVATION, body, url, missing, h, expected))
                   /\ h = NoHeader =>
                         out.status = IF ~valid \/ url \notin blobs \/ url \in MalformedUrls
                                      THEN 400
                                      ELSE IF missing THEN 404 ELSE 401
        /\ \A b \in 1..MaxTeachers :
               LET full == ProjectBody(IdString(b), FALSE, 1, url)
                   body == IF valid THEN full ELSE Without(full, {"name"})
                   missing == teachers[b] = NoEnt
                   out == postEntity(store, blobs, body, PROJECT, h, NoAncestor, now, "none")
               IN  /\ AnsweredWith(out, FirstFailing(PROJECT, body, url, missing, h,
                                                Digits(IdString(b))))
                   /\ h = NoHeader =>
                         out.status = IF ~valid \/ url \notin blobs \/ url \in MalformedUrls
                                      THEN 400
                                      ELSE IF missing THEN 404 ELSE 401

\* Teacher 1 has a project and has just asked for a project of teacher 2, who
\* does not exist: the answer is 404, not the 403 of a foreign header.
C28_Witness ==
    /\ last.op = "post" /\ last.kind = PROJECT
    /\ last.status = 404 /\ last.content = TEACHER_NOT_FOUND
    /\ last.tx = <<"run">>
    /\ teachers[1] # NoEnt /\ teachers[2] = NoEnt
    /\ projects[1] # NoEnt
    /\ validateAuthHeader(store, Owner, Digits(IdString(2)), Null, FALSE, now, "none").status
         = 403

(***************************************************************************)
(* Failed resets under SpecAuth.                                           *)
(***************************************************************************)
\* The secrets a reset's header may carry: each code a challenge can send,
\* and the password.
ResetSecrets == {uuidV4(k) : k \in 1..MaxCodes} \cup {"Relativity1"}

\* C29, the answers: a reset for teacher 1 is refused with 400 for an invalid
\* body, 404 for an unknown teacher or a teacher without credential, 403 for
\* a header with another id, 401 for a secret that is not the unexpired code
\* on file, 401 for other secret questions or answers, 403 for the password
\* on file; and every refused reset writes nothing.
C29_Refused ==
    teachers[1] # NoEnt =>
        \A password \in Passwords, answer \in Answers, valid \in BOOLEAN,
           teacherId \in IdStrings(1) \cup {IdString(2)}, secret \in ResetSecrets,
           known \in BOOLEAN :
            LET full == CredentialBody(password, answer)
                body == IF valid THEN full ELSE Without(full, {"password"})
                db == IF known THEN store
                      ELSE [store EXCEPT !.teachers[1] = NoEnt, !.credentials[1] = NoEnt]
                noCredential == [store EXCEPT !.credentials[1] = NoEnt]
                out == resetUnknownPassword(db, blobs, body, IdString(1),
                                            Basic(teacherId, secret), now, "none")
                code == StoredResetCode(1)
                expected ==
                    IF ~valid THEN 400
                    ELSE IF ~known THEN 404
                    ELSE IF teacherId # IdString(1) THEN 403
                    ELSE IF ~(secret = code.code /\ isUnexpired(code, now)) THEN 401
                    ELSE IF answer # "Rex" THEN 401
                    ELSE IF password = decryptString(credentials[1].password) THEN 403
                    ELSE 204
            IN  /\ out.status = expected
                /\ out.status # 204 => out.writes = <<>> /\ out.bucket = blobs
                /\ valid =>
                      resetUnknownPassword(noCredential, blobs, body, IdString(1),
                                           Basic(teacherId, secret), now, "none")
                        = Rollback(404, CREDENTIAL_NOT_FOUND, blobs)

\* C29, the step: a reset that is not answered 204 leaves the stored
\* credentials as they were: password, secret questions, reset code and
\* expiry.
C29_Step ==
    last'.op = "reset" /\ last'.status # 204 => credentials' = credentials

\* C29: every failing resetUnknownPassword leaves the stored credential
\* unchanged, so a failed attempt does not consume an unexpired code.
C29_FailedResetKeepsCredential == []C29_Refused /\ [][C29_Step]_vars

\* A reset with the code on file and other answers has just been refused with
\* 401; the code is still on file and has not expired.
C29_Witness ==
    /\ last.op = "reset" /\ last.status = 401
    /\ last.content = "The secret questions and answers provided do not match those on file."
    /\ ActiveCode(1)

(***************************************************************************)
(* The descriptions the aggregate is computed against, under Spec.  With   *)
(* one request at a time the snapshot of a transaction is the store at the *)
(* request; the observation being changed is named as the route names it.  *)
(***************************************************************************)

\* The descriptions of the project's live observations, but for the given
\* set of observations.
DescriptionsBut(p, excluded) == {DescriptionOf(x) : x \in Live(p) \ excluded}

\* The same for ids written without a leading zero only.
C30_Canonical ==
    \A p \in 1..MaxProjects : \A o \in Live(p) :
        getOtherODNDescriptions(store, p, Digits(IdString(o)), "none").descriptions
          = DescriptionsBut(p, {o})

\* C30: the other descriptions of an update or delete of a live observation
\* are exactly the descriptions of the live observations of its project
\* without the observation itself, however its id is written; those of a
\* create are the descriptions of all live observations of the project;
\* observations of other projects never contribute.
C30_OtherDescriptions ==
    \A p \in 1..MaxProjects :
        /\ getOtherODNDescriptions(store, p, Null, "none").descriptions
              = DescriptionsBut(p, {})
        /\ \A o \in Live(p) : \A id \in IdStrings(o) :
              getOtherODNDescriptions(store, p, Digits(id), "none").descriptions
                = DescriptionsBut(p, {o})

\* Both projects hold an observation, with different descriptions.
C30_TwoProjects ==
    /\ Live(1) # {} /\ Live(2) # {}
    /\ DescriptionsBut(1, {}) # DescriptionsBut(2, {})

(***************************************************************************)
(* The secrets of a teacher under SpecOwner: the Teacher record and what   *)
(* the reads answer.                                                       *)
(***************************************************************************)
Secrets == {"password", "secret_questions"}

\* The entity has no secret property, and none of its properties holds a
\* teacher's password or secret questions.
FreeOfSecrets(entity) ==
    /\ Keys(entity) \cap Secrets = {}
    /\ \A k \in Keys(entity) :
           Prop(entity, k) \notin
               {Str(PasswordOf(b)) : b \in 1..MaxTeachers} \cup {SecretQuestionsBody("Rex")}

\* C31, the states: no Teacher record holds a secret, and a read answered 200
\* carries none.
C31_State ==
    /\ \A b \in 1..MaxTeachers : teachers[b] # NoEnt => FreeOfSecrets(teachers[b])
    /\ last.op = "get" /\ last.status = 200 => FreeOfSecrets(last.content)
    /\ last.op = "getAll" /\ last.status = 200 =>
          \A entity \in last.content : FreeOfSecrets(entity)

\* C31, the step: a Teacher record that appears has the default photo.
C31_Step ==
    \A b \in 1..MaxTeachers :
        teachers[b] = NoEnt /\ teachers'[b] # NoEnt =>
            Prop(teachers'[b], "profile_photo") = Str(DEFAULT_PROFILE_PHOTO)

\* C31: the Teacher record persisted by postEntity holds neither password
\* nor secret_questions and has the default photo as profile_photo; no
\* response of getEntity or getEntities holds a password or secret answers.
C31_TeacherHoldsNoSecrets == []C31_State /\ [][C31_Step]_vars

\* The list of teachers has just been answered with both teachers, one of
\* them with a photo of their own.
C31_Witness ==
    /\ last.op = "getAll" /\ last.kind = TEACHER /\ last.status = 200
    /\ Cardinality(last.content) = 2
    /\ \E entity \in last.content : Prop(entity, "profile_photo") = Str("img1")

(***************************************************************************)
(* SpecKnown: one teacher, whose credential is created (or fails to be),   *)
(* challenged, reset with a code, and patched under the current password   *)
(* with every shape of header; the commit of a patch may fail.             *)
(***************************************************************************)
CredentialPatches ==
    {Obj([password |-> Str(password)]) : password \in Passwords}
        \cup {Obj([secret_questions |-> SecretQuestionsBody(answer)]) : answer \in Answers}
        \cup {CredentialBody(password, answer) : password \in Passwords, answer \in Answers}
        \cup {Obj([password |-> Str("short")]), Obj([name |-> Str("Ada")])}

KnownHeaders ==
    {NoHeader, Header(6, "Bearer", <<IdString(1), "Relativity1">>),
     Basic(IdString(2), "Relativity1")}
        \cup {Basic(id, password) : id \in IdStrings(1), password \in Passwords}
        \cup {Basic(IdString(1), uuidV4(k)) : k \in 1..MaxCodes}

KnownIds == IdStrings(1) \cup {IdString(2)}

KnownTeacher ==
    \E fail \in {"none", "postCredential"} :
        /\ nextId[TEACHER] = 0
        /\ Post(TeacherBody("Relativity1"), TEACHER, NoHeader, NoAncestor, fail)

KnownChallenge ==
    /\ teachers[1] # NoEnt
    /\ Challenge(IdString(1), "none")

KnownReset ==
    \E body \in ResetBodies, code \in IssuedCodes :
        /\ teachers[1] # NoEnt
        /\ ResetPassword(body, IdString(1), Basic(IdString(1), code), "none")

KnownPatch ==
    \E patch \in CredentialPatches, teacherId \in KnownIds, h \in KnownHeaders :
        \E fail \in {"none", "commit"} :
            /\ teachers[1] # NoEnt
            /\ PatchCredential(patch, teacherId, h, fail)

NextKnown ==
    \/ KnownTeacher
    \/ KnownChallenge
    \/ KnownReset
    \/ KnownPatch

SpecKnown == Init /\ [][NextKnown]_vars

(***************************************************************************)
(* The form of the stored credentials under SpecKnown.                     *)
(***************************************************************************)
\* The field is a ciphertext.
IsCipher(field) == DOMAIN field = {"cipher"}

\* All seven fields of the credential are ciphertexts of plain values: of a
\* password, of a question or answer, of a reset code or none, and of the
\* decimal string of an expiry or none.
EncryptedCredential(cred) ==
    /\ DOMAIN cred = {"password", "secret_questions", "reset_code"}
    /\ IsCipher(cred.password)
    /\ decryptString(cred.password) \in Passwords
    /\ DOMAIN cred.secret_questions = SecretQuestionKeys
    /\ \A k \in SecretQuestionKeys :
           /\ IsCipher(cred.secret_questions[k])
           /\ DOMAIN decryptString(cred.secret_questions[k]) = {"str"}
    /\ DOMAIN cred.reset_code = {"code", "expires"}
    /\ IsCipher(cred.reset_code.code)
    /\ decryptString(cred.reset_code.code) \in {""} \cup {uuidV4(k) : k \in 1..MaxCodes}
    /\ IsCipher(cred.reset_code.expires)
    /\ \A i \in DOMAIN decryptString(cred.reset_code.expires) :
           IsDigit(decryptString(cred.reset_code.expires)[i])

Patched(cred, patch) ==
    [password |-> IF "password" \in Keys(patch)
                  THEN encryptString(Prop(patch, "password").str) ELSE cred.password,
     secret_questions |->
         IF "secret_questions" \in Keys(patch)
         THEN [k \in SecretQuestionKeys |->
                   encryptString(Prop(Prop(patch, "secret_questions"), k))]
         ELSE cred.secret_questions,
     reset_code |-> cred.reset_code]

\* C34, the requests: a patch is answered 204 only when the header is a Basic
\* header with the id of the route, the id of a teacher with a credential,
\* and that teacher's current password, and then it saves the credential
\* with exactly the patched fields replaced; any other answer is 400, 401,
\* 403, 404 or 500 and saves nothing.
C34_Requests ==
    \A patch \in CredentialPatches, teacherId \in KnownIds, h \in KnownHeaders :
        \A fail \in {"none", "commit"} :
            LET out == updateCredentialPasswordKnown(store, blobs, patch, teacherId, h,
                                                     now, fail)
                b == parseInt(teacherId)
            IN  IF out.status = 204
                THEN /\ credentials[b] # NoEnt
                     /\ h = Basic(teacherId, decryptString(credentials[b].password))
                     /\ Keys(patch) # {} /\ Keys(patch) \subseteq Secrets
                     /\ out.writes = <<Save(CREDENTIAL, 0, b, Patched(credentials[b], patch))>>
                ELSE /\ out.status \in {400, 401, 403, 404, 500}
                     /\ out.writes = <<>>

\* C34, the step: a patch answered 204 leaves the reset code and its expiry
\* as they were; a patch answered otherwise leaves the credentials as they
\* were.
C34_Step ==
    last'.op = "patchCredential" =>
        IF last'.status = 204
        THEN credentials'[last'.id].reset_code = credentials[last'.id].reset_code
        ELSE credentials' = credentials

\* C34: updateCredentialPasswordKnown changes a credential only under the
\* teacher's own id and current password; on 204 exactly the patched fields
\* are replaced and the reset code and expiry stay; on any failure the
\* stored credential is unchanged.
C34_PatchUnderCurrentPassword == []C34_Requests /\ [][C34_Step]_vars

\* A patch of the password alone has just been saved while a reset code is on
\* file: the code is still there and the secret questions are the first ones.
C34_Witness ==
    /\ last.op = "patchCredential" /\ last.status = 204
    /\ decryptString(credentials[1].password) = "Manhattan01"
    /\ decryptString(credentials[1].secret_questions["answer_1"]) = Str("Rex")
    /\ StoredResetCode(1).code = uuidV4(1)

(***************************************************************************)
(* What an update leaves and what it replaces, under SpecFail.             *)
(***************************************************************************)
\* Patches of one or several properties, of the image and of other ones.
FramePatches(kind) ==
    UpdatePatches(kind) \cup
    (CASE kind = TEACHER ->
            {Obj([name |-> Str("Bea"), school |-> Str("Oak")]),
             Obj([email |-> Str("bea@school.example"), profile_photo |-> Null])}
       [] kind = PROJECT ->
            {Obj([name |-> Str("Bees"), description_text |-> Str("Count the bees")])}
       [] kind = OBSERVATION ->
            {Obj([data_number |-> ObservationDataNumber(d, q)]) :
                d \in Descriptions, q \in Quantities}
            \cup {Obj([date |-> Str("2020-03-02"), data_description |-> Str("at dusk")])})

\* The entity with each property the patch names set to the patch's value,
\* null for a teacher's profile_photo standing for the default photo, and
\* every other property as it was.
Merged(entity, patch, kind) ==
    Obj([k \in Keys(entity) \cup Keys(patch) |->
            IF k \notin Keys(patch) THEN Prop(entity, k)
            ELSE IF kind = TEACHER /\ k = "profile_photo" /\ Prop(patch, k) = Null
            THEN Str(DEFAULT_PROFILE_PHOTO)
            ELSE Prop(patch, k)])

\* The data of the entity of the kind with the id in the tables.
DataIn(ts, ps, os, kind, id) ==
    CASE kind = TEACHER -> ts[id]
      [] kind = PROJECT -> ps[id]
      [] kind = OBSERVATION -> os[id].data

\* C33, the requests: an update answered 200 saves the entity merged with
\* the patch, and no other write is on an entity of its kind.
C33_Requests ==
    \A e \in Entities : \A patch \in FramePatches(e.kind), fail \in {"none", "deleteImage"} :
        \A id \in IdStrings(e.id) :
        e.owner # Null =>
            LET old == getEntityData(store, e.kind, id, e.ancestor)
                out == updateEntity(store, blobs, patch, e.kind, id,
                                    Signed(e.owner.digits), e.ancestor, now, fail)
                parent == IF e.kind = OBSERVATION THEN parseInt(e.ancestor.entityId) ELSE 0
            IN  out.status = 200 =>
                    /\ out.writes # <<>>
                    /\ out.writes[1] = Save(e.kind, e.id, parent, Merged(old, patch, e.kind))
                    /\ \A i \in 2..Len(out.writes) : out.writes[i].kind # e.kind

\* C33, the step: after an update answered 200 the stored entity is the one
\* before merged with a patch.
C33_Step ==
    last'.op = "update" /\ last'.status = 200 =>
        \E patch \in FramePatches(last'.kind) :
            DataIn(teachers', projects', observations', last'.kind, last'.id)
              = Merged(DataIn(teachers, projects, observations, last'.kind, last'.id),
                       patch, last'.kind)

\* C33: a successful updateEntity leaves every top-level property that the
\* patch does not name as it was and replaces each named property with the
\* patch's value, profile_photo: null with the default photo.
C33_UpdateMerges == []C33_Requests /\ [][C33_Step]_vars

\* A teacher has just replaced the default photo with an uploaded one: the
\* record has the new photo and the name, email and school it had.
C33_Witness ==
    /\ last.op = "update" /\ last.kind = TEACHER /\ last.status = 200
    /\ teachers[1] = With(Without(TeacherBody("Relativity1"), Secrets),
                          "profile_photo", Str("img2"))

(***************************************************************************)
(* SpecId: isValidId on the strings a client can send as an id, in a path  *)
(* (never empty) and as the teacher_id of a body.  The characters are      *)
(* digits and the two characters next to the digits in character order.    *)
(***************************************************************************)
IdChars == {"0", "1", "9", "/", ":"}
IdInputs == UNION {[1..n -> IdChars] : n \in 0..MaxIdLen}

\* isValidId is called on id; the call and its result are kept.
CheckId(from, id, valid) ==
    /\ last' = [op |-> "isValidId", from |-> from, id |-> id, valid |-> valid]
    /\ UNCHANGED <<teachers, credentials, projects, observations, blobs, nextId, now, nextCode,
                   transactions>>

CheckRouteId == \E id \in IdInputs \ {<<>>} : CheckId("route", id, isValidId(id))

CheckBodyId == \E id \in IdInputs : CheckId("body", id, VALIDATE_DS_ID(Digits(id)))

NextId ==
    \/ CheckRouteId
    \/ CheckBodyId

SpecId == Init /\ [][NextId]_vars

\* The decimal representation of a positive integer: digits, the first of
\* them not zero.
IsPositiveDecimal(id) ==
    /\ id # <<>>
    /\ \A i \in 1..Len(id) : IsDigit(id[i])
    /\ id[1] # "0"

\* What the loop of isValidId decides: no character outside "0".."9".
C35_AllDigits ==
    last.op = "isValidId" => (last.valid <=> \A i \in 1..Len(last.id) : IsDigit(last.id[i]))

\* C35: isValidId(id) is true exactly when id is the decimal representation
\* of a positive integer, and false for every other string, the empty string
\* and "0" among them.
C35_ValidIdIsPositiveDecimal ==
    last.op = "isValidId" => (last.valid <=> IsPositiveDecimal(last.id))

(***************************************************************************)
(* SpecOffset: one teacher and one project, created with a number the      *)
(* client chooses; observations are created, updated and deleted under it  *)
(* one request at a time, addressed by either form of their id.  No call   *)
(* fails.                                                                  *)
(***************************************************************************)
OffsetTeacher ==
    /\ nextId[TEACHER] = 0
    /\ Post(TeacherBody("Relativity1"), TEACHER, NoHeader, NoAncestor, "none")

OffsetUpload == Upload("img1", Owner, "none")

OffsetProject ==
    \E mustBeUnique \in BOOLEAN, number \in ClientNumbers :
        /\ nextId[PROJECT] = 0
        /\ Post(ProjectBody(IdString(1), mustBeUnique, number, "img1"), PROJECT, Owner,
                NoAncestor, "none")

OffsetPostObservation ==
    \E d \in Descriptions, q \in Quantities :
        /\ projects[1] # NoEnt
        /\ NumberOf(1) < MaxNumber
        /\ Post(ObservationBody(d, q, "img1"), OBSERVATION, Owner, Ancestor(IdString(1)),
                "none")

OffsetUpdateObservation ==
    \E o \in 1..MaxObservations, d \in Descriptions, q \in Quantities :
        /\ observations[o] # NoEnt
        /\ NumberOf(1) < MaxNumber
        /\ \E id \in IdStrings(o) :
               Update(Obj([data_number |-> ObservationDataNumber(d, q)]), OBSERVATION, id,
                      Owner, Ancestor(IdString(1)), "none")

OffsetDeleteObservation ==
    \E o \in 1..MaxObservations :
        /\ observations[o] # NoEnt
        /\ \E id \in IdStrings(o) :
               Remove(OBSERVATION, id, Owner, Ancestor(IdString(1)), "none")

NextOffset ==
    \/ OffsetTeacher
    \/ OffsetUpload
    \/ OffsetProject
    \/ OffsetPostObservation
    \/ OffsetUpdateObservation
    \/ OffsetDeleteObservation

SpecOffset == Init /\ [][NextOffset]_vars

\* The observations of the table that exist under project p.
LiveIn(os, p) == {i \in DOMAIN os : os[i] # NoEnt /\ os[i].parent = p}

RECURSIVE SumIn(_, _)
\* The sum of the quantities of the observations of the set.
SumIn(os, S) ==
    IF S = {} THEN 0
    ELSE LET o == CHOOSE x \in S : TRUE
         IN  Prop(Prop(os[o].data, "data_number"), "quantity").num + SumIn(os, S \ {o})

\* What the number of project p counts: the distinct descriptions of its
\* observations when must_be_unique, else the sum of their quantities.
CountedIn(ps, os, p) ==
    IF Prop(Prop(ps[p], "data_number"), "must_be_unique") = Bool(TRUE)
    THEN Cardinality({DescriptionIn(os, o) : o \in LiveIn(os, p)})
    ELSE SumIn(os, LiveIn(os, p))

\* C36, as steps: a project appears with no observation under it, and from
\* then on every step changes its number by exactly the change of what it
\* counts, so that the number stays the client's initial number plus the sum
\* of the live quantities or the count of the distinct live descriptions.
C36_Step ==
    \A p \in 1..MaxProjects :
        projects'[p] # NoEnt =>
            IF projects[p] = NoEnt THEN LiveIn(observations', p) = {}
            ELSE NumberIn(projects', p) - NumberIn(projects, p)
                   = CountedIn(projects', observations', p)
                       - CountedIn(projects, observations, p)

\* C36: for a project created with any initial number n0, after any sequence
\* of successful observation mutations handled one at a time the number is
\* n0 plus the sum of the live quantities (must_be_unique = false) or n0 plus
\* the count of distinct live descriptions (must_be_unique = true).
C36_NumberKeepsOffset == [][C36_Step]_vars

(***************************************************************************)
(* SpecOrphan: one teacher, who creates projects naming themself by either *)
(* form of their id, creates and deletes observations, deletes projects,   *)
(* lists their projects and deletes their account, one request at a time.  *)
(* Every request is signed with the id as the request writes it.  No call  *)
(* fails.                                                                  *)
(***************************************************************************)
OrphanTeacher ==
    /\ nextId[TEACHER] = 0
    /\ Post(TeacherBody("Relativity1"), TEACHER, NoHeader, NoAncestor, "none")

OrphanUpload ==
    /\ teachers[1] # NoEnt
    /\ Upload("img1", Signed(IdString(1)), "none")

OrphanProject ==
    \E id \in IdStrings(1) :
        Post(ProjectBody(id, FALSE, 0, "img1"), PROJECT, Signed(id), NoAncestor, "none")

OrphanObservation ==
    \E p \in 1..MaxProjects :
        /\ projects[p] # NoEnt
        /\ Post(ObservationBody("Robin", 1, "img1"), OBSERVATION, SignedFor(p),
                Ancestor(IdString(p)), "none")

OrphanDeleteObservation ==
    \E o \in 1..MaxObservations :
        /\ observations[o] # NoEnt
        /\ projects[observations[o].parent] # NoEnt
        /\ Remove(OBSERVATION, IdString(o), SignedFor(observations[o].parent),
                  Ancestor(IdString(observations[o].parent)), "none")

OrphanDeleteProject ==
    \E p \in 1..MaxProjects :
        /\ projects[p] # NoEnt
        /\ Remove(PROJECT, IdString(p), SignedFor(p), NoAncestor, "none")

OrphanGetProjects ==
    \E id \in IdStrings(1) : GetAll(PROJECT, NoAncestor, Digits(id), "none")

OrphanDeleteTeacher ==
    \E id \in IdStrings(1) :
        /\ teachers[1] # NoEnt
        /\ Remove(TEACHER, id, Signed(id), NoAncestor, "none")

NextOrphan ==
    \/ OrphanTeacher
    \/ OrphanUpload
    \/ OrphanProject
    \/ OrphanObservation
    \/ OrphanDeleteObservation
    \/ OrphanDeleteProject
    \/ OrphanGetProjects
    \/ OrphanDeleteTeacher

SpecOrphan == Init /\ [][NextOrphan]_vars

\* The teacher the project's teacher_id parses to.
TeacherOf(p) == parseInt(Prop(projects[p], "teacher_id").digits)

\* Every observation that exists is under a project that exists.
ObservationsHaveProject ==
    \A o \in 1..MaxObservations :
        observations[o] # NoEnt => projects[observations[o].parent] # NoEnt

\* C37: in every state reached by requests handled one at a time with no
\* store or blob failure, every live observation's project is live and
\* every live project's teacher_id refers to a live teacher.
C37_NoOrphans ==
    /\ ObservationsHaveProject
    /\ \A p \in 1..MaxProjects :
           projects[p] # NoEnt =>
               TeacherOf(p) \in 1..MaxTeachers /\ teachers[TeacherOf(p)] # NoEnt

\* C38: every live project's teacher_id is stored in the form the teacher
\* cascade and the list by teacher filter on, so that for teacher t, by
\* either form of the id in the path, deleteProjectsOfTeacher and getEntities
\* select every project created for teacher t; a teacher_id with a leading
\* zero is never stored.
C38_TeacherIdCanonical ==
    \A p \in 1..MaxProjects :
        projects[p] # NoEnt =>
            /\ Prop(projects[p], "teacher_id") = Digits(IdString(TeacherOf(p)))
            /\ \A id \in IdStrings(TeacherOf(p)) :
                   /\ p \in ProjectsOfTeacher(store, Digits(id))
                   /\ \E entity \in
                          getEntities(store, blobs, PROJECT, NoAncestor, Digits(id),
                                      "none").content :
                          Prop(entity, "id") = Digits(IdString(p))

(***************************************************************************)
(* Two deletes of observations with one description at once, under         *)
(* SpecRace.                                                               *)
(***************************************************************************)
\* Both requests were deletes, of the two observations of a must_be_unique
\* project, which were its only ones and had the same description at the
\* run() of both; both commits were accepted.
TwinDeletes ==
    /\ BothDone
    /\ \A s \in Slots : transactions[s].req.op = "delete" /\ transactions[s].status = 204
    /\ transactions["a"].req.id # transactions["b"].req.id
    /\ transactions["a"].db = transactions["b"].db
    /\ LET db == transactions["a"].db
       IN  /\ Prop(Prop(db.projects[1], "data_number"), "must_be_unique") = Bool(TRUE)
           /\ LiveIn(db.observations, 1) = {transactions[s].req.id : s \in Slots}
           /\ Cardinality({DescriptionIn(db.observations, o) :
                             o \in LiveIn(db.observations, 1)}) = 1

Candidates == {""} \cup ResetSecrets \cup Passwords

\* The code on file for teacher b is the cleared one.
NoCodeOnFile(b) ==
    /\ teachers[b] # NoEnt /\ credentials[b] # NoEnt
    /\ StoredResetCode(b).code = ""

\* C40, the answers: while the code on file is the cleared one,
\* resetCodeValid is false for every candidate, the empty string included,
\* at every instant, and every reset is refused and writes nothing.
C40_Requests ==
    \A b \in 1..MaxTeachers :
        NoCodeOnFile(b) =>
            /\ StoredResetCode(b) = emptyResetCode
            /\ \A candidate \in Candidates, t \in Instants :
                 /\ ~resetCodeValid(credentials[b], candidate, t)
                 /\ \A out \in ResetAnswers(store, b, candidate, t) :
                        out.status # 204 /\ out.writes = <<>>

\* C40, the requests: a reset answered 204 found a code on file, one that a
\* challenge issued; only a challenge answered 200 puts a code on file.
C40_Step ==
    /\ last'.op = "reset" /\ last'.status = 204 =>
         /\ ~NoCodeOnFile(last'.id)
         /\ StoredResetCode(last'.id).code \in IssuedCodes
    /\ \A b \in 1..MaxTeachers :
         NoCodeOnFile(b) /\ credentials'[b] # NoEnt /\ StoredIn(credentials', b).code # ""
         => last'.op = "challenge" /\ last'.status = 200 /\ last'.id = b

\* C40: while a teacher has no active reset code (none issued, or the last
\* one cleared by a successful reset), resetCodeValid rejects every
\* candidate, the empty string that equals the cleared code included, and
\* no reset succeeds until a challenge issues a new code.
C40_NoResetWithoutCode == []C40_Requests /\ [][C40_Step]_vars

\* A code was issued and cleared by a successful reset, the new password is
\* on file, and a reset has just been refused with 401 while no code is on
\* file.
C40_Witness ==
    /\ last.op = "reset" /\ last.status = 401
    /\ last.content = "The reset code provided is incorrect and/or expired."
    /\ nextCode >= 1
    /\ NoCodeOnFile(1)
    /\ credentials[1].reset_code = encryptResetCode(clearCode)
    /\ passwordsMatch(credentials[1], "Manhattan01")

====
